---- MODULE Spec2Model ----
(***************************************************************************)
(* Model of the unified ChatManager of frontend/js/chat.js (the second     *)
(* class of the file, lines 607-1888): the send path, the SSE read loop,  *)
(* the event dispatcher, the tool indicators, the upload path and the     *)
(* session clear; of the search of JobsManager (frontend/js/jobs.js); and  *)
(* of the message path of the first ChatManager class of chat.js (lines    *)
(* 6-606), called the legacy class here.                                   *)
(*                                                                         *)
(* The page is single threaded: a handler runs until its next await.       *)
(* Every action below is one such run (from an entry point or an await to  *)
(* the next await or the return).                                          *)
(***************************************************************************)
EXTENDS Integers, Sequences, FiniteSets, TLC

VARIABLES
    chatHistory,              \* this.chatHistory: sequence of [role, content]
    isTyping,                 \* this.isTyping
    resumeUploaded,           \* this.resumeUploaded
    currentStreamingMessage,  \* this.currentStreamingMessage: 0 = null, else the id of a bot element
    currentStreamingContent,  \* this.currentStreamingContent
    sessionId,                \* this.sessionId
    sessionState,             \* this.sessionState
    uploadedFile,             \* this.uploadedFile: NoFile = undefined
    chatMessages,             \* children of #chat-messages, in document order
    botView,                  \* botView[id]: innerHTML of .streaming-content of bot element id
    jobsPanel,                \* what the job panel on the left shows
    notification,             \* type of the last toast of showNotification
    jobsManagerAvailable,     \* window.jobsManager with a displayJobs function exists
    pc,                       \* position of the turn: idle, fetching (await fetch), reading (await reader.read())
    wire,                     \* bytes of the response the server has produced and the reader has not yet returned
    reqSid,                   \* session_id of the request whose response is being read
    pendingClears,            \* clearSession() calls awaiting their DELETE
    pendingUploads,           \* handleFileUpload() calls awaiting their POST: set of [file, el]
    pendingPrompts,           \* setTimeout callbacks of showUploadCompleteMessage not yet run
    nextSid,                  \* number of session ids generated so far
    nextEl,                   \* number of elements created so far
    \* history variables (not program state)
    requests,                 \* contexts of the POST /api/chat/unified requests issued, each with
                              \* the number of session ids generated before it (generation),
                              \* the session id the stream before it supplied (supplied) and
                              \* the number of session ids generated before the reading of
                              \* its response began (opened, 0 until then), with the number
                              \* of clearSession() calls then awaiting their DELETE (clearing);
                              \* the last two are written down in SpecCancel only
    sentEvents,               \* events of the records the server has put on the wire this turn
                              \* (written down in SpecDecode only)
    dispatched,               \* events handed to processUnifiedEvent since the last request
    routed,                   \* calls of displayJobsInPanel since the last request: [jobs, tag]
    textSent,                 \* concatenation of the contents of the text events dispatched this turn
    containers,               \* bot message containers created by text events this turn
    errorsShown,              \* error messages appended during this turn
    usedSids,                 \* session ids the manager has held
    emitted,                  \* records the server has emitted in the whole run
    outstanding,              \* requests issued whose turn has not ended
    clears,                   \* clearSession() calls made in the whole run
    uploads,                  \* handleFileUpload() calls made in the whole run
    lastOp,                   \* the last handler run and its outcome
    \* JobsManager (jobs.js)
    isLoading,                \* this.isLoading
    currentJobs,              \* this.currentJobs: the number of jobs it holds
    jobTitleInput,            \* value of #jobTitle
    jobsPage,                 \* #loadingIndicator, #jobsContainer, #noJobsMessage, #resultsCount
    searches,                 \* handleJobSearch() calls awaiting: sequence of [stage, title]
    searchLog,                \* job_title of the POST /api/jobs/search requests issued (history)
    \* the legacy ChatManager (chat.js:6-606)
    legacyIsTyping,           \* this.isTyping
    legacyChatHistory,        \* this.chatHistory
    legacyResumeUploaded,     \* this.resumeUploaded
    legacyMessages,           \* children of #chat-messages
    legacyHandlers,           \* handlers awaiting: sequence of [op, stage, el, text]
    legacyStarted             \* sends and uploads accepted in the whole run (history)

jobsVars == <<isLoading, currentJobs, jobTitleInput, jobsPage, searches, searchLog>>

legacyVars == <<legacyIsTyping, legacyChatHistory, legacyResumeUploaded,
                legacyMessages, legacyHandlers, legacyStarted>>

\* the variables of the unified ChatManager and of its page
chatVars == <<chatHistory, isTyping, resumeUploaded, currentStreamingMessage,
              currentStreamingContent, sessionId, sessionState, uploadedFile,
              chatMessages, botView, jobsPanel, notification, jobsManagerAvailable,
              pc, wire, reqSid, pendingClears, pendingUploads, pendingPrompts,
              nextSid, nextEl, requests, sentEvents, dispatched, routed, textSent,
              containers, errorsShown, usedSids, emitted, outstanding, clears,
              uploads>>

vars == <<chatHistory, isTyping, resumeUploaded, currentStreamingMessage,
          currentStreamingContent, sessionId, sessionState, uploadedFile,
          chatMessages, botView, jobsPanel, notification, jobsManagerAvailable,
          pc, wire, reqSid, pendingClears, pendingUploads, pendingPrompts,
          nextSid, nextEl, requests, sentEvents, dispatched, routed, textSent,
          containers, errorsShown, usedSids, emitted, outstanding, clears,
          uploads, lastOp, jobsVars, legacyVars>>

----------------------------------------------------------------------------
(* Bounds of the model *)

MaxSends   == 2      \* accepted sends in a run
MaxEvents  == 3      \* records the server emits in a run
MaxChunk   == 2      \* records the server adds to the wire between two reads
MaxClears  == 1      \* clearSession() calls in a run
MaxUploads == 1      \* uploads in a run
MaxScript  == 4      \* records the server emits in a run of SpecWebSearch
MaxPriorTurns == 5   \* turns completed before the first state of a run of SpecHistory
MaxSearches == 3     \* job search requests issued in a run
MaxLegacyOps == 2    \* messages and uploads the legacy manager accepts in a run
MaxLegacyText == 2   \* content records in a stream the legacy manager reads

----------------------------------------------------------------------------
(* Values *)

NoSid     == [src |-> "none",   n |-> 0]
ServerSid == [src |-> "server", n |-> 0]
ClientSid(k) == [src |-> "client", n |-> k]

\* this.uploadedFile: the server names every upload it stores (unique_filename)
UploadedFile(f, u) == [filename |-> f, unique_filename |-> u]

NoFile == UploadedFile("undefined", 0)
Files  == {"cv.pdf"}

\* the user's input after trim(): empty, or a message
Messages == {<<>>, <<"hi">>}

\* the window of history sent with a request (chat.js:758)
HistoryWindow == 10

EmptySessionState == [resumeAnalysis |-> "null", jobPostings |-> <<>>, toolResults |-> <<>>]

EmptyPanel == [shown |-> FALSE, jobs |-> 0, tag |-> "", personalized |-> FALSE, by |-> ""]

----------------------------------------------------------------------------
(* Stream events: the JSON records of the wire format *)

EvBase(t) == [type |-> t, content |-> <<>>, cb |-> "", name |-> "",
              res |-> "", sid |-> NoSid, jobs |-> -1, mt |-> ""]

TextEv(t, c)   == [EvBase(t) EXCEPT !.content = c]
BlockEv(b, n)  == [EvBase("content_block_start") EXCEPT !.cb = b, !.name = n]
ToolEv(t, n)   == [EvBase(t) EXCEPT !.name = n]
ResultEv(n, r) == [EvBase("tool_execution_complete") EXCEPT !.name = n, !.res = r]
JobsEv(k, m)   == [EvBase("job_data") EXCEPT !.jobs = k, !.mt = m]
DoneEv(s)      == [EvBase("complete") EXCEPT !.sid = s]

\* the records a server may send in answer to a request that carried session id s
Events(s) ==
    { EvBase("start"), EvBase("ping") }
    \cup { TextEv("text", <<"a">>), TextEv("text", <<" ">>),
           TextEv("text_delta", <<"<">>), TextEv("text_delta", <<>>) }
    \cup { BlockEv("server_tool_use", "web_search"),
           BlockEv("server_tool_use", "analyze_resume"),
           BlockEv("web_search_tool_result", "") }
    \cup { ToolEv("tool_use_start", "match_jobs_with_resume"),
           ToolEv("tool_use_start", "web_search"),
           ToolEv("tool_execution_start", "analyze_resume") }
    \cup { ResultEv("analyze_resume", "ok"), ResultEv("analyze_resume", "error"),
           ResultEv("match_jobs_with_resume", "matches"),
           ResultEv("web_search", "ok"), ResultEv("custom_tool", "ok") }
    \cup { TextEv("error", <<"e">>) }
    \cup { JobsEv(1, "personalized"), JobsEv(2, "") }
    \cup { DoneEv(NoSid), DoneEv(s), DoneEv(ServerSid) }

\* the text of a "data: " line that is not JSON
BadLine == EvBase("<not JSON>")

\* the JSON text null: JSON.parse returns null, which has no property type
NullEv == EvBase("<null>")

\* a result of the job matching tool whose matches are not an array
MalformedMatches == ResultEv("match_jobs_with_resume", "malformed")

\* The streams of a specification are written with a part of these records:
\* text, one tool and the error record
DialogueEvents(s) ==
    { e \in Events(s) :
        \/ e.type \in {"text", "error"}
        \/ e.type = "text_delta" /\ e.content # <<>>
        \/ e.type = "content_block_start" /\ e.name = "analyze_resume"
        \/ e.type = "tool_execution_complete" /\ e.name = "analyze_resume" /\ e.res = "ok" }

\* the announcements of three tools, and the start and the end of one
ToolEvents(s) ==
    { e \in Events(s) :
        \/ e.type = "content_block_start" /\ e.cb = "server_tool_use"
        \/ e.type = "tool_use_start" /\ e.name # "web_search"
        \/ e.type = "tool_execution_start"
        \/ e.type = "tool_execution_complete" /\ e.name = "analyze_resume" /\ e.res = "ok" }

\* one text and the three forms of the complete record
SessionEvents(s) ==
    { e \in Events(s) : e.type = "complete" \/ (e.type = "text" /\ e.content = <<"a">>) }

\* the records of a turn with one web search: the announcement of the
\* search, its completion, the text and the complete record
WebSearchEvents(s) ==
    { e \in Events(s) :
        \/ e.type = "content_block_start" /\ e.cb = "server_tool_use" /\ e.name = "web_search"
        \/ e.type = "tool_execution_complete" /\ e.name = "web_search"
        \/ e.type = "text" /\ e.content = <<"a">>
        \/ e.type = "complete" /\ e.sid = NoSid }

\* the records that may come before the first visible text of an answer: a
\* start record, white space, the announcement of a tool, job data; and a text
LazyEvents(s) ==
    { EvBase("start"), TextEv("text", <<" ">>), TextEv("text", <<"\n">>),
      TextEv("text", <<"a">>), ToolEv("tool_use_start", "match_jobs_with_resume"),
      JobsEv(1, "personalized") }

\* a record of a type the client does not know, among two texts, the
\* announcement of a tool and a complete record with a session id
UnknownEvents(s) ==
    { e \in Events(s) :
        \/ e.type = "ping"
        \/ e.type = "text" /\ e.content = <<"a">>
        \/ e.type = "text_delta" /\ e.content = <<"<">>
        \/ e.type = "content_block_start" /\ e.name = "analyze_resume"
        \/ e.type = "complete" /\ e.sid = ServerSid }

\* one text
UploadEvents(s) == { e \in Events(s) : e.type = "text" /\ e.content = <<"a">> }

\* one text, the announcement of a tool and the two job_data records
JobDataEvents(s) ==
    { e \in Events(s) :
        \/ e.type = "text" /\ e.content = <<"a">>
        \/ e.type = "content_block_start" /\ e.name = "analyze_resume"
        \/ e.type = "job_data" }

\* one text, a job_data record and the result of the job matching tool
MatchEvents(s) ==
    { e \in Events(s) :
        \/ e.type = "text" /\ e.content = <<"a">>
        \/ e.type = "job_data" /\ e.mt = "personalized"
        \/ e.type = "tool_execution_complete" /\ e.name = "match_jobs_with_resume" }

\* one text and the error record
FaultEvents(s) ==
    { e \in Events(s) : e.type = "error" \/ (e.type = "text" /\ e.content = <<"a">>) }

\* one text, a complete record and a line that is not JSON
FaultyLineEvents(s) ==
    { e \in Events(s) :
        \/ e.type = "text" /\ e.content = <<"a">>
        \/ e.type = "complete" /\ e.sid = NoSid }
    \cup { BadLine }

\* the two records whose handling raises an exception, the announcement of a
\* tool and a text
ThrowEvents(s) ==
    { NullEv, MalformedMatches,
      ToolEv("tool_use_start", "match_jobs_with_resume"),
      TextEv("text", <<"a">>) }

\* two texts and a complete record
DecodeEvents(s) ==
    { e \in Events(s) :
        \/ e.type \in {"text", "text_delta"} /\ e.content \in {<<"a">>, <<"<">>}
        \/ e.type = "complete" /\ e.sid = NoSid }

----------------------------------------------------------------------------
(* The DOM under #chat-messages *)

El(k, i, n, st) == [kind |-> k, id |-> i, name |-> n, st |-> st]

\* the kinds of element that carry the class "message"
MessageKinds == {"user", "bot", "error", "websearch", "typing",
                 "upload-indicator", "upload-success", "upload-error", "upload-prompt"}

Count(dom, k) == Cardinality({i \in 1..Len(dom) : dom[i].kind = k})

\* remove the element at index i
RemoveAt(dom, i) == SubSeq(dom, 1, i - 1) \o SubSeq(dom, i + 1, Len(dom))

\* document.querySelector / getElementById: index of the first match, 0 if none
FirstOf(dom, k) ==
    IF \E i \in 1..Len(dom) : dom[i].kind = k
    THEN CHOOSE i \in 1..Len(dom) : dom[i].kind = k /\ \A j \in 1..(i - 1) : dom[j].kind # k
    ELSE 0

RemoveFirst(dom, k) == IF FirstOf(dom, k) = 0 THEN dom ELSE RemoveAt(dom, FirstOf(dom, k))

hideTypingIndicator(dom) == RemoveFirst(dom, "typing")

hideWebSearchIndicator(dom) == RemoveFirst(dom, "websearch")

showWebSearchIndicator(dom) ==
    Append(hideWebSearchIndicator(dom), El("websearch", 0, "web_search", "searching"))

showToolExecutionIndicator(dom, toolName) ==
    Append(hideWebSearchIndicator(dom), El("tool", 0, toolName, "announced"))

\* updateToolExecutionIndicator showing a new indicator for the tool at work
updateToolExecutionIndicatorShows(dom, toolName, status) ==
    IF status = "executing"
    THEN Append(dom, El("tool", 0, toolName, "executing"))
    ELSE dom

updateToolExecutionIndicator(dom, toolName, status) ==
    LET i == FirstOf(dom, "tool")
    IN  IF i # 0 /\ status = "executing"
        THEN [dom EXCEPT ![i] = El("tool", 0, toolName, "executing")]
        ELSE dom

hideToolExecutionIndicator(dom) == RemoveFirst(dom, "tool")

\* clearChatUI removes every .message that is not the welcome message
clearChatUI(dom) == SelectSeq(dom, LAMBDA e : e.kind \notin MessageKinds)

\* the indicators a user can see
Indicators(dom) == Count(dom, "websearch") + Count(dom, "tool")

----------------------------------------------------------------------------
(* Rendering of the streamed text *)

\* A text is a sequence of characters.  The character references and the
\* tags that the rendering writes are single elements of the sequence
\* ("&lt;", "<strong>"): no rule looks inside them.

\* div.textContent = text; return div.innerHTML
EscapeChar(c) == CASE c = "<" -> "&lt;"
                   [] c = ">" -> "&gt;"
                   [] c = "&" -> "&amp;"
                   [] c = "&lt;" -> "&amp;lt;"
                   [] c = "&gt;" -> "&amp;gt;"
                   [] c = "&amp;" -> "&amp;amp;"
                   [] OTHER   -> c

escapeHtml(text) == [i \in 1..Len(text) |-> EscapeChar(text[i])]

\* p stands in t at index i
IsAt(t, i, p) == i >= 1 /\ i + Len(p) - 1 <= Len(t) /\ SubSeq(t, i, i + Len(p) - 1) = p

\* String.prototype.indexOf(p, i): the first index from i on where p stands, 0 if none
IndexFrom(t, i, p) ==
    IF \E j \in i..Len(t) : IsAt(t, j, p)
    THEN CHOOSE j \in i..Len(t) : IsAt(t, j, p) /\ \A k \in i..(j - 1) : ~IsAt(t, k, p)
    ELSE 0

\* String.prototype.replace(p, r) with a string p: the first occurrence only
ReplaceFirst(t, p, r) ==
    LET j == IndexFrom(t, 1, p)
    IN  IF j = 0 THEN t
        ELSE SubSeq(t, 1, j - 1) \o r \o SubSeq(t, j + Len(p), Len(t))

\* the grave accent U+0060, which a string of this language cannot hold
Backtick == "[grave]"

Fence == <<Backtick, Backtick, Backtick>>

IndexDigit(n) == <<"0", "1", "2", "3", "4", "5", "6", "7", "8", "9">>[n + 1]

\* the template literal __CODE_BLOCK_${index}__
CodeBlockPlaceholder(n) ==
    <<"_", "_", "C", "O", "D", "E", "_", "B", "L", "O", "C", "K", "_",
      IndexDigit(n), "_", "_">>

\* the template literal __INLINE_CODE_${index}__
InlineCodePlaceholder(n) ==
    <<"_", "_", "I", "N", "L", "I", "N", "E", "_", "C", "O", "D", "E", "_",
      IndexDigit(n), "_", "_">>

\* html.replace(/(fence)([\s\S]*?)(fence)/g, ...) from index i on, n blocks found so far:
\* the text with placeholders, and the contents taken out
RECURSIVE ProtectCodeBlocks(_, _, _)
ProtectCodeBlocks(t, i, n) ==
    IF i > Len(t) THEN [html |-> <<>>, codes |-> <<>>]
    ELSE LET j == IF IsAt(t, i, Fence) THEN IndexFrom(t, i + 3, Fence) ELSE 0
         IN  IF j # 0
             THEN LET r == ProtectCodeBlocks(t, j + 3, n + 1)
                  IN  [html  |-> CodeBlockPlaceholder(n) \o r.html,
                       codes |-> << SubSeq(t, i + 3, j - 1) >> \o r.codes]
             ELSE LET r == ProtectCodeBlocks(t, i + 1, n)
                  IN  [html |-> << t[i] >> \o r.html, codes |-> r.codes]

\* html.replace(/(grave)([^(grave)]+)(grave)/g, ...)
RECURSIVE ProtectInlineCodes(_, _, _)
ProtectInlineCodes(t, i, n) ==
    IF i > Len(t) THEN [html |-> <<>>, codes |-> <<>>]
    ELSE LET j == IF t[i] = Backtick THEN IndexFrom(t, i + 1, <<Backtick>>) ELSE 0
         IN  IF j > i + 1
             THEN LET r == ProtectInlineCodes(t, j + 1, n + 1)
                  IN  [html  |-> InlineCodePlaceholder(n) \o r.html,
                       codes |-> << SubSeq(t, i + 1, j - 1) >> \o r.codes]
             ELSE LET r == ProtectInlineCodes(t, i + 1, n)
                  IN  [html |-> << t[i] >> \o r.html, codes |-> r.codes]

\* w times the character c stand in t at index i
RunAt(t, i, c, w) == i >= 1 /\ i + w - 1 <= Len(t) /\ \A k \in i..(i + w - 1) : t[k] = c

\* the first index from i on of the character c or of a newline, 0 if none
EndOfSpan(t, i, c) ==
    IF \E k \in i..Len(t) : t[k] \in {c, "\n"}
    THEN CHOOSE k \in i..Len(t) :
            t[k] \in {c, "\n"} /\ \A m \in i..(k - 1) : t[m] \notin {c, "\n"}
    ELSE 0

\* The four emphasis rules, from index i on.  c is the marker, w its width:
\*   /\*\*([^*\n]+?)\*\*/g and /__([^_\n]+?)__/g            (w = 2)
\*   /(?<!\*)\*([^*\n]+?)\*(?!\*)/g and the same with _     (w = 1, alone)
\* alone: the marker must not touch another marker on its outer side
RECURSIVE Emphasis(_, _, _, _, _, _)
Emphasis(t, i, c, w, alone, tag) ==
    IF i > Len(t) THEN <<>>
    ELSE LET k == IF RunAt(t, i, c, w) /\ (alone => (i = 1 \/ t[i - 1] # c))
                  THEN EndOfSpan(t, i + w, c)
                  ELSE 0
             matches == /\ k > i + w
                        /\ RunAt(t, k, c, w)
                        /\ alone => (k + w > Len(t) \/ t[k + w] # c)
         IN  IF matches
             THEN << "<" \o tag \o ">" >> \o SubSeq(t, i + w, k - 1)
                  \o << "</" \o tag \o ">" >> \o Emphasis(t, k + w, c, w, alone, tag)
             ELSE << t[i] >> \o Emphasis(t, i + 1, c, w, alone, tag)

\* codeBlocks.forEach((code, index) => html = html.replace(placeholder, ...))
RECURSIVE RestoreCodeBlocks(_, _, _)
RestoreCodeBlocks(html, codes, n) ==
    IF n >= Len(codes) THEN html
    ELSE RestoreCodeBlocks(
             ReplaceFirst(html, CodeBlockPlaceholder(n),
                          <<"<pre>", "<code>">> \o escapeHtml(codes[n + 1])
                          \o <<"</code>", "</pre>">>),
             codes, n + 1)

\* inlineCodes.forEach((code, index) => html = html.replace(placeholder, ...))
RECURSIVE RestoreInlineCodes(_, _, _)
RestoreInlineCodes(html, codes, n) ==
    IF n >= Len(codes) THEN html
    ELSE RestoreInlineCodes(
             ReplaceFirst(html, InlineCodePlaceholder(n),
                          <<"<code>">> \o escapeHtml(codes[n + 1]) \o <<"</code>">>),
             codes, n + 1)

\* String.prototype.split('\n')
RECURSIVE SplitLines(_)
SplitLines(t) ==
    LET j == IndexFrom(t, 1, <<"\n">>)
    IN  IF j = 0 THEN << t >>
        ELSE << SubSeq(t, 1, j - 1) >> \o SplitLines(SubSeq(t, j + 1, Len(t)))

\* Array.prototype.join('\n')
RECURSIVE JoinLines(_)
JoinLines(lines) ==
    IF lines = <<>> THEN <<>>
    ELSE IF Len(lines) = 1 THEN lines[1]
    ELSE lines[1] \o <<"\n">> \o JoinLines(Tail(lines))

\* a substitution anchored with ^ and $ under the m flag rewrites each line
EachLine(Rule(_), t) ==
    LET lines == SplitLines(t)
    IN  JoinLines([i \in 1..Len(lines) |-> Rule(lines[i])])

Wrap(tag, t) == << "<" \o tag \o ">" >> \o t \o << "</" \o tag \o ">" >>

\* /^#### (.*$)/gm, then ###, ## and #
HeadingLine(line) ==
    IF IsAt(line, 1, <<"#", "#", "#", "#", " ">>) THEN Wrap("h4", SubSeq(line, 6, Len(line)))
    ELSE IF IsAt(line, 1, <<"#", "#", "#", " ">>) THEN Wrap("h3", SubSeq(line, 5, Len(line)))
    ELSE IF IsAt(line, 1, <<"#", "#", " ">>) THEN Wrap("h2", SubSeq(line, 4, Len(line)))
    ELSE IF IsAt(line, 1, <<"#", " ">>) THEN Wrap("h1", SubSeq(line, 3, Len(line)))
    ELSE line

\* line.length - line.trimStart().length
Indent(line) ==
    IF \A k \in 1..Len(line) : line[k] = " " THEN Len(line)
    ELSE (CHOOSE k \in 1..Len(line) :
              line[k] # " " /\ \A m \in 1..(k - 1) : line[m] = " ") - 1

\* String.prototype.trim()
Trim(line) ==
    IF \A k \in 1..Len(line) : line[k] = " " THEN <<>>
    ELSE LET last == CHOOSE k \in 1..Len(line) :
                         line[k] # " " /\ \A m \in (k + 1)..Len(line) : line[m] = " "
         IN  SubSeq(line, Indent(line) + 1, last)

IsDigit(c) == c \in {"0", "1", "2", "3", "4", "5", "6", "7", "8", "9"}

\* /^[-*] (.+)/
UnorderedItem(tl) == Len(tl) >= 3 /\ tl[1] \in {"-", "*"} /\ tl[2] = " "

\* the number of leading digits
LeadingDigits(tl) ==
    IF \A k \in 1..Len(tl) : IsDigit(tl[k]) THEN Len(tl)
    ELSE (CHOOSE k \in 1..Len(tl) :
              ~IsDigit(tl[k]) /\ \A m \in 1..(k - 1) : IsDigit(tl[m])) - 1

\* /^\d+\. (.+)/
OrderedItem(tl) ==
    LET d == LeadingDigits(tl)
    IN  d >= 1 /\ IsAt(tl, d + 1, <<".", " ">>) /\ Len(tl) >= d + 3

Repeat(x, n) == [k \in 1..n |-> x]

\* The loop of processListsEnhanced from line i on, and the closing after it
RECURSIVE ListLines(_, _, _, _, _)
ListLines(lines, i, inUnorderedList, inOrderedList, listLevel) ==
    IF i > Len(lines)
    THEN (IF inUnorderedList THEN Repeat(<<"</ul>">>, listLevel + 1) ELSE <<>>)
         \o (IF inOrderedList THEN Repeat(<<"</ol>">>, listLevel + 1) ELSE <<>>)
    ELSE
    LET line         == lines[i]
        trimmedLine  == Trim(line)
        currentLevel == Indent(line) \div 2
    IN  IF UnorderedItem(trimmedLine)
        THEN LET changes == ~inUnorderedList \/ currentLevel # listLevel
             IN  (IF inOrderedList THEN << <<"</ol>">> >> ELSE <<>>)
                 \o (IF ~changes THEN <<>>
                     ELSE IF inUnorderedList /\ currentLevel > listLevel
                          THEN << <<"<ul>">> >>
                     ELSE IF inUnorderedList /\ currentLevel < listLevel
                          THEN Repeat(<<"</ul>">>, listLevel - currentLevel)
                     ELSE << <<"<ul>">> >>)
                 \o << Wrap("li", SubSeq(trimmedLine, 3, Len(trimmedLine))) >>
                 \o ListLines(lines, i + 1, TRUE, FALSE,
                              IF changes THEN currentLevel ELSE listLevel)
        ELSE IF OrderedItem(trimmedLine)
        THEN LET changes == ~inOrderedList \/ currentLevel # listLevel
                 d       == LeadingDigits(trimmedLine)
             IN  (IF inUnorderedList THEN << <<"</ul>">> >> ELSE <<>>)
                 \o (IF ~changes THEN <<>>
                     ELSE IF inOrderedList /\ currentLevel > listLevel
                          THEN << <<"<ol>">> >>
                     ELSE IF inOrderedList /\ currentLevel < listLevel
                          THEN Repeat(<<"</ol>">>, listLevel - currentLevel)
                     ELSE << <<"<ol>">> >>)
                 \o << Wrap("li", SubSeq(trimmedLine, d + 3, Len(trimmedLine))) >>
                 \o ListLines(lines, i + 1, FALSE, TRUE,
                              IF changes THEN currentLevel ELSE listLevel)
        ELSE (IF inUnorderedList THEN Repeat(<<"</ul>">>, listLevel + 1) ELSE <<>>)
             \o (IF inOrderedList THEN Repeat(<<"</ol>">>, listLevel + 1) ELSE <<>>)
             \o << line >>
             \o ListLines(lines, i + 1, FALSE, FALSE, 0)

\* the lines that processListsEnhanced pushes to result
ListResult(text) == ListLines(SplitLines(text), 1, FALSE, FALSE, 0)

processListsEnhanced(text) == JoinLines(ListResult(text))

\* /^> (.*$)/gm
BlockquoteLine(line) ==
    IF IsAt(line, 1, <<">", " ">>) THEN Wrap("blockquote", SubSeq(line, 3, Len(line)))
    ELSE line

\* /^---+$/gm, then /^\*\*\*+$/gm
RuleLine(line) ==
    IF Len(line) >= 3 /\ (\/ \A k \in 1..Len(line) : line[k] = "-"
                          \/ \A k \in 1..Len(line) : line[k] = "*")
    THEN <<"<hr>">>
    ELSE line

\* the tags of /\n(?!<\/?(h[1-6]|ul|ol|li|blockquote|pre|hr|div))/g that the
\* rendering writes
BlockTags ==
    {"<h1>", "</h1>", "<h2>", "</h2>", "<h3>", "</h3>", "<h4>", "</h4>",
     "<ul>", "</ul>", "<ol>", "</ol>", "<li>", "</li>",
     "<blockquote>", "</blockquote>", "<pre>", "</pre>", "<hr>"}

\* every tag the rendering writes
Tags ==
    BlockTags \cup {"<strong>", "</strong>", "<em>", "</em>", "<code>", "</code>", "<br>"}

LineBreaks(t) ==
    [i \in 1..Len(t) |->
        IF t[i] = "\n" /\ ~(i < Len(t) /\ t[i + 1] \in BlockTags) THEN "<br>" ELSE t[i]]

parseMarkdown(text) ==
    LET blocks   == ProtectCodeBlocks(text, 1, 0)
        inlines  == ProtectInlineCodes(blocks.html, 1, 0)
        headings == EachLine(HeadingLine, inlines.html)
        bold     == Emphasis(Emphasis(headings, 1, "*", 2, FALSE, "strong"),
                             1, "_", 2, FALSE, "strong")
        italic   == Emphasis(Emphasis(bold, 1, "*", 1, TRUE, "em"),
                             1, "_", 1, TRUE, "em")
        lists    == processListsEnhanced(italic)
        rules    == EachLine(RuleLine, EachLine(BlockquoteLine, lists))
        restored == RestoreInlineCodes(
                        RestoreCodeBlocks(rules, blocks.codes, 0), inlines.codes, 0)
    IN  LineBreaks(restored)

\* The two schemes, each written as one element of the text
UrlSchemes == {"http://", "https://"}

\* the first index from i on of white space or of a tag, Len(t) + 1 if none
EndOfUrl(t, i) ==
    IF \E k \in i..Len(t) : t[k] \in {" ", "\n"} \cup Tags
    THEN CHOOSE k \in i..Len(t) :
            /\ t[k] \in {" ", "\n"} \cup Tags
            /\ \A m \in i..(k - 1) : t[m] \notin {" ", "\n"} \cup Tags
    ELSE Len(t) + 1

\* formatted.replace(/(https?:\/\/[^\s<]+)/g, '<a href="$1" ...>$1</a>') from index i on
RECURSIVE Linkify(_, _)
Linkify(t, i) ==
    IF i > Len(t) THEN <<>>
    ELSE LET k == IF t[i] \in UrlSchemes THEN EndOfUrl(t, i + 1) ELSE 0
         IN  IF k > i + 1
             THEN LET url == SubSeq(t, i, k - 1)
                  IN  <<"<a href=\"">> \o url
                      \o <<"\" target=\"_blank\" rel=\"noopener noreferrer\">">>
                      \o url \o <<"</a>">> \o Linkify(t, k)
             ELSE << t[i] >> \o Linkify(t, i + 1)

formatMessage(content) ==
    IF content = <<>> THEN <<>>
    ELSE Linkify(parseMarkdown(escapeHtml(content)), 1)

\* The pieces of a Markdown text with code in it: a fence, a bold word, a
\* grave accent, a letter
MarkdownPieces ==
    { Fence, <<"*", "*", "x", "*", "*">>, <<Backtick>>, <<"x">> }

\* text records that carry these pieces
MarkdownEvents(s) == { TextEv("text", c) : c \in MarkdownPieces }

\* The pieces of a Markdown text with lists in it: an item of each kind, a
\* line that is no item, and the two blanks that indent an item by one level
ListPieces ==
    { <<"-", " ", "a", "\n">>,
      <<"1", ".", " ", "a", "\n">>,
      <<"x", "\n">>,
      <<" ", " ">> }

\* text records that carry these pieces
ListEvents(s) == { TextEv("text", c) : c \in ListPieces }

\* String.prototype.trim() leaves something
TrimNonEmpty(text) == \E i \in 1..Len(text) : text[i] \notin {" ", "\n"}

----------------------------------------------------------------------------
(* The job panel *)

fallbackDisplayJobs(panel, k, matchType) ==
    [shown |-> TRUE, jobs |-> k, tag |-> matchType, personalized |-> FALSE, by |-> "fallback"]

\* s is the record of the fields an event can change
displayJobsInPanel(s, k, matchType) ==
    IF s.jm
    THEN [s EXCEPT !.panel = [shown |-> TRUE, jobs |-> k, tag |-> matchType,
                              personalized |-> (matchType = "personalized"),
                              by |-> "jobsManager"],
                   !.notif = "success",
                   !.routed = Append(@, [jobs |-> k, tag |-> matchType])]
    ELSE [s EXCEPT !.panel = fallbackDisplayJobs(s.panel, k, matchType),
                   !.routed = Append(@, [jobs |-> k, tag |-> matchType])]

displayJobMatches(s, k) ==
    IF s.jm THEN displayJobsInPanel(s, k, "matched") ELSE s

\* handleToolResult without the case of web_search
handleToolResultKeepsSearch(s, toolName, result) ==
    CASE toolName = "analyze_resume" ->
            IF result \notin {"", "error"}
            THEN [s EXCEPT !.ss = [s.ss EXCEPT !.resumeAnalysis = result]]
            ELSE s
      [] toolName = "match_jobs_with_resume" ->
            IF result = "matches" THEN displayJobMatches(s, 1) ELSE s
      [] OTHER -> s

\* the model's match results carry one match
handleToolResult(s, toolName, result) ==
    CASE toolName = "analyze_resume" ->
            IF result \notin {"", "error"}
            THEN [s EXCEPT !.ss = [s.ss EXCEPT !.resumeAnalysis = result]]
            ELSE s
      [] toolName = "match_jobs_with_resume" ->
            IF result = "matches" THEN displayJobMatches(s, 1) ELSE s
      [] toolName = "web_search" ->
            [s EXCEPT !.dom = hideWebSearchIndicator(s.dom)]
      [] OTHER -> s

----------------------------------------------------------------------------
(* The event dispatcher.  An event acts on the record s of the fields of   *)
(* the manager and of the page that a stream event can change:             *)
(*   content, msg   currentStreamingContent, currentStreamingMessage       *)
(*   dom, view      chatMessages, botView                                  *)
(*   sid, ss        sessionId, sessionState                                *)
(*   panel, notif   jobsPanel, notification                                *)
(*   jm, nextEl     jobsManagerAvailable, nextEl                           *)
(*   containers, errors, textSent, dispatched, routed   the history        *)
(*                                                       variables         *)

createEmptyBotMessage(s) ==
    [s EXCEPT !.dom    = Append(s.dom, El("bot", s.nextEl + 1, "", "")),
              !.view   = ((s.nextEl + 1) :> <<>>) @@ s.view,
              !.msg    = s.nextEl + 1,
              !.nextEl = s.nextEl + 1,
              !.containers = s.containers + 1]

updateStreamingMessage(s) ==
    IF s.msg = 0 THEN s
    ELSE [s EXCEPT !.view = [s.view EXCEPT ![s.msg] = formatMessage(s.content)]]

createErrorMessage(s) ==
    [s EXCEPT !.dom = Append(s.dom, El("error", 0, "", "")),
              !.errors = s.errors + 1]

\* TextEvent keeping the last delta only instead of the accumulated text
TextEventLastDelta(s, event) ==
    IF event.content # <<>>
    THEN LET s1 == [s EXCEPT !.content = event.content]
             s2 == IF s1.msg = 0 /\ TrimNonEmpty(s1.content)
                   THEN createEmptyBotMessage([s1 EXCEPT !.dom = hideTypingIndicator(s1.dom)])
                   ELSE s1
         IN  IF s2.msg # 0 THEN updateStreamingMessage(s2) ELSE s2
    ELSE s

\* TextEvent opening a container without looking for an open one
TextEventNewContainer(s, event) ==
    IF event.content # <<>>
    THEN LET s1 == [s EXCEPT !.content = s.content \o event.content]
             s2 == IF TrimNonEmpty(s1.content)
                   THEN createEmptyBotMessage([s1 EXCEPT !.dom = hideTypingIndicator(s1.dom)])
                   ELSE s1
         IN  IF s2.msg # 0 THEN updateStreamingMessage(s2) ELSE s2
    ELSE s

\* TextEvent opening the container at the first text, white space or not
TextEventEager(s, event) ==
    IF event.content # <<>>
    THEN LET s1 == [s EXCEPT !.content = s.content \o event.content]
             s2 == IF s1.msg = 0
                   THEN createEmptyBotMessage([s1 EXCEPT !.dom = hideTypingIndicator(s1.dom)])
                   ELSE s1
         IN  IF s2.msg # 0 THEN updateStreamingMessage(s2) ELSE s2
    ELSE s

\* case 'text': case 'text_delta':
TextEvent(s, event) ==
    IF event.content # <<>>
    THEN LET s1 == [s EXCEPT !.content = s.content \o event.content]
             s2 == IF s1.msg = 0 /\ TrimNonEmpty(s1.content)
                   THEN createEmptyBotMessage([s1 EXCEPT !.dom = hideTypingIndicator(s1.dom)])
                   ELSE s1
         IN  IF s2.msg # 0 THEN updateStreamingMessage(s2) ELSE s2
    ELSE s

\* case 'content_block_start':
ContentBlockStart(s, event) ==
    CASE event.cb = "server_tool_use" ->
            IF event.name = "web_search"
            THEN [s EXCEPT !.dom = showWebSearchIndicator(s.dom)]
            ELSE [s EXCEPT !.dom = showToolExecutionIndicator(s.dom, event.name)]
      [] event.cb = "web_search_tool_result" ->
            [s EXCEPT !.dom = hideWebSearchIndicator(s.dom)]
      [] OTHER -> s

\* case 'tool_use_start':
ToolUseStart(s, event) ==
    IF event.name = "web_search"
    THEN [s EXCEPT !.dom = showWebSearchIndicator(s.dom)]
    ELSE [s EXCEPT !.dom = showToolExecutionIndicator(s.dom, event.name)]

\* JobData taking the arrival of job data for the end of the tool at work
JobDataHidesTool(s, event) ==
    IF event.jobs >= 0
    THEN displayJobsInPanel([s EXCEPT !.dom = hideToolExecutionIndicator(s.dom)],
                            event.jobs, IF event.mt = "" THEN "general" ELSE event.mt)
    ELSE s

\* JobData dropping the match_type of the event
JobDataUntagged(s, event) ==
    IF event.jobs >= 0
    THEN displayJobsInPanel(s, event.jobs, "general")
    ELSE s

\* case 'job_data':
JobData(s, event) ==
    IF event.jobs >= 0
    THEN displayJobsInPanel(s, event.jobs, IF event.mt = "" THEN "general" ELSE event.mt)
    ELSE s

\* the default branch showing an error message
UnknownEventFails(s, event) == createErrorMessage(s)

\* default: the type is logged
UnknownEvent(s, event) == s

processUnifiedEvent(s, event) ==
    CASE event.type \in {"start", "text_start", "tool_input_delta", "complete"} -> s
      [] event.type \in {"text", "text_delta"} -> TextEvent(s, event)
      [] event.type = "content_block_start" -> ContentBlockStart(s, event)
      [] event.type = "tool_use_start" -> ToolUseStart(s, event)
      [] event.type = "web_search_result" ->
            [s EXCEPT !.dom = hideWebSearchIndicator(s.dom)]
      [] event.type = "tool_execution_start" ->
            [s EXCEPT !.dom = updateToolExecutionIndicator(s.dom, event.name, "executing")]
      [] event.type = "tool_execution_complete" ->
            handleToolResult([s EXCEPT !.dom = hideToolExecutionIndicator(s.dom)],
                             event.name, event.res)
      [] event.type = "conversation_complete" ->
            [s EXCEPT !.dom = hideTypingIndicator(s.dom)]
      [] event.type = "error" -> createErrorMessage(s)
      [] event.type = "job_data" -> JobData(s, event)
      [] OTHER -> UnknownEvent(s, event)

\* AfterEvent taking the session id of every complete record, present or not
AfterEventOverwrite(s, data) ==
    IF data.type = "complete" THEN [s EXCEPT !.sid = data.sid] ELSE s

\* the read loop's own bookkeeping after an event (chat.js:826-835); its
\* locals currentContent and currentTool are written and never read
AfterEvent(s, data) ==
    IF data.type = "complete"
    THEN [s EXCEPT !.sid = IF data.sid # NoSid THEN data.sid ELSE s.sid]
    ELSE s

----------------------------------------------------------------------------
(* The wire and the frame decoding of the read loop *)

\* A record "data: <JSON>\n\n" is five characters: the prefix, the two
\* halves of the JSON text, and two line terminators.
Ch(k, ev) == [k |-> k, ev |-> ev]

Encode(ev) == << Ch("D", EvBase("")), Ch("J1", ev), Ch("J2", ev),
                 Ch("NL", EvBase("")), Ch("NL", EvBase("")) >>

RECURSIVE EncodeAll(_)
EncodeAll(evs) == IF evs = <<>> THEN <<>> ELSE Encode(Head(evs)) \o EncodeAll(Tail(evs))

\* chunk.split('\n')
RECURSIVE Split(_)
Split(chunk) ==
    IF \A i \in 1..Len(chunk) : chunk[i].k # "NL"
    THEN << chunk >>
    ELSE LET i == CHOOSE i \in 1..Len(chunk) :
                      chunk[i].k = "NL" /\ \A j \in 1..(i - 1) : chunk[j].k # "NL"
         IN  << SubSeq(chunk, 1, i - 1) >> \o Split(SubSeq(chunk, i + 1, Len(chunk)))

\* line.startsWith('data: ')
StartsWithData(line) == Len(line) >= 1 /\ line[1].k = "D"

\* JSON.parse(line.slice(6)) returns a record exactly when the text is a whole JSON text
Parses(line) ==
    /\ Len(line) = 3
    /\ line[2].k = "J1" /\ line[3].k = "J2"
    /\ line[2].ev = line[3].ev
    /\ line[2].ev # BadLine

\* processUnifiedEvent raises an exception: the destructuring of null
\* (chat.js:865), or matches.map of matches that are no array, which
\* displayJobMatches calls when window.jobsManager is there (1088-1090).
\* Both are raised before the handler has changed anything more, so
\* processUnifiedEvent(s, event) is the state the exception leaves.
Throws(s, event) ==
    \/ event = NullEv
    \/ event = MalformedMatches /\ s.jm

\* the body of the for loop over the lines of a chunk (chat.js:819-841): the
\* catch of the inner try takes an exception of processUnifiedEvent as it
\* takes one of JSON.parse, and the bookkeeping after the event is skipped
ProcessLine(s, line) ==
    IF StartsWithData(line) /\ Parses(line)
    THEN LET data == line[2].ev
             s1 == [s EXCEPT !.dispatched = Append(s.dispatched, data),
                             !.textSent = IF data.type \in {"text", "text_delta"}
                                          THEN s.textSent \o data.content
                                          ELSE s.textSent]
         IN  IF Throws(s1, data)
             THEN processUnifiedEvent(s1, data)
             ELSE AfterEvent(processUnifiedEvent(s1, data), data)
    ELSE s

\* the lines of a chunk taken from the last to the first
RECURSIVE ProcessLinesBackwards(_, _)
ProcessLinesBackwards(s, lines) ==
    IF lines = <<>> THEN s
    ELSE ProcessLine(ProcessLinesBackwards(s, Tail(lines)), Head(lines))

\* for (const line of lines), each line awaited before the next (chat.js:819-841)
RECURSIVE ProcessLines(_, _)
ProcessLines(s, lines) ==
    IF lines = <<>> THEN s
    ELSE ProcessLines(ProcessLine(s, Head(lines)), Tail(lines))

----------------------------------------------------------------------------
(* JobsManager: the job search of the left panel (jobs.js) *)

\* what the user may have typed into #jobTitle
JobTitles == { <<>>, <<" ">>, <<"d">>, <<" ", "q">> }

\* the number of jobs a response may carry; Missing: the body has no jobs
Missing == -1
JobCounts == {Missing, 0, 1, 2}

\* the page as index.html delivers it: #loadingIndicator and #noJobsMessage
\* do not exist, so the code's tests of them fail (index.html:96-105)
InitJobs ==
    /\ isLoading = FALSE
    /\ currentJobs = 0
    /\ jobTitleInput = <<>>
    /\ jobsPage = [display |-> "block", content |-> "", count |-> 0]
    /\ searches = <<>>
    /\ searchLog = <<>>

showLoading(page) == [page EXCEPT !.display = "none"]

hideLoading(page) == page

showNoJobs(page) == [page EXCEPT !.display = "none"]

displayJobs(page, k) ==
    IF k = 0
    THEN showNoJobs([page EXCEPT !.count = 0])
    ELSE [page EXCEPT !.count = k, !.content = "jobs", !.display = "block"]

showError(page) == [page EXCEPT !.content = "error", !.display = "block"]

\* the user types into #jobTitle
TypeJobTitle ==
    /\ \E t \in JobTitles : t # jobTitleInput /\ jobTitleInput' = t
    /\ lastOp' = "type_job_title"
    /\ UNCHANGED <<chatVars, legacyVars, isLoading, currentJobs, jobsPage, searches, searchLog>>

\* the guard without the test of isLoading
SearchInProgressNever == FALSE

\* the first guard of handleJobSearch (jobs.js:109-112)
SearchInProgress == isLoading

\* handleJobSearch up to the await of fetch (jobs.js:106-141)
handleJobSearch ==
    LET jobTitle == Trim(jobTitleInput)
    IN  IF SearchInProgress
        THEN /\ lastOp' = "search_rejected_busy"
             /\ UNCHANGED <<chatVars, legacyVars, jobsVars>>
        ELSE IF jobTitle = <<>>
        THEN /\ lastOp' = "search_rejected_empty"
             /\ UNCHANGED <<chatVars, legacyVars, jobsVars>>
        ELSE /\ Len(searchLog) < MaxSearches
             /\ isLoading' = TRUE
             /\ jobsPage' = showLoading(jobsPage)
             /\ searches' = Append(searches, [stage |-> "fetch", title |-> jobTitle])
             /\ searchLog' = Append(searchLog, jobTitle)
             /\ lastOp' = "search_start"
             /\ UNCHANGED <<chatVars, legacyVars, currentJobs, jobTitleInput>>

\* the finally of handleJobSearch (jobs.js:156-159), which ends call i
SearchFinally(i, page) ==
    /\ isLoading' = FALSE
    /\ jobsPage' = hideLoading(page)
    /\ searches' = RemoveAt(searches, i)

\* the catch of handleJobSearch (jobs.js:153-155), then its finally
SearchCatch(i) ==
    /\ SearchFinally(i, showError(jobsPage))
    /\ UNCHANGED <<chatVars, legacyVars, currentJobs, jobTitleInput, searchLog>>

\* fetch resolves with status OK: the handler awaits response.json()
SearchResponded ==
    /\ \E i \in 1..Len(searches) :
         /\ searches[i].stage = "fetch"
         /\ searches' = [searches EXCEPT ![i].stage = "json"]
    /\ lastOp' = "search_responded"
    /\ UNCHANGED <<chatVars, legacyVars, isLoading, currentJobs, jobTitleInput, jobsPage,
                   searchLog>>

\* fetch resolves with a status that is not OK: the handler throws
SearchHttpError ==
    /\ \E i \in 1..Len(searches) : searches[i].stage = "fetch" /\ SearchCatch(i)
    /\ lastOp' = "search_http_error"

\* fetch rejects
SearchNetworkFailure ==
    /\ \E i \in 1..Len(searches) : searches[i].stage = "fetch" /\ SearchCatch(i)
    /\ lastOp' = "search_network_failure"

\* response.json() rejects: the body is cut or is not JSON
SearchBodyFailure ==
    /\ \E i \in 1..Len(searches) : searches[i].stage = "json" /\ SearchCatch(i)
    /\ lastOp' = "search_body_failure"

\* response.json() resolves: the jobs are kept and displayed
SearchSucceeded ==
    /\ \E i \in 1..Len(searches) : \E k \in JobCounts :
         LET jobs == IF k = Missing THEN 0 ELSE k
         IN  /\ searches[i].stage = "json"
             /\ currentJobs' = jobs
             /\ SearchFinally(i, displayJobs(jobsPage, jobs))
    /\ lastOp' = "search_ok"
    /\ UNCHANGED <<chatVars, legacyVars, jobTitleInput, searchLog>>

----------------------------------------------------------------------------
(* The legacy ChatManager (chat.js:6-606) *)

\* the constructor (chat.js:7-16); the page holds the welcome message only
InitLegacy ==
    /\ legacyIsTyping = FALSE
    /\ legacyChatHistory = <<>>
    /\ legacyResumeUploaded = FALSE
    /\ legacyMessages = <<>>
    /\ legacyHandlers = <<>>
    /\ legacyStarted = 0

\* an element of class "message": id > 0 for the containers of streamed
\* answers, text: the content it was given or the answer it shows so far
LegacyEl(k, i, t) == [kind |-> k, id |-> i, text |-> t]

\* the texts the code writes itself
UploadingText == <<"uploading">>
UploadedText  == <<"uploaded">>
SorryText     == <<"sorry">>

\* addMessage(sender, content, isStreaming) (chat.js:212-241): the element
addMessageDom(dom, sender, content, isStreaming, id) ==
    Append(dom, LegacyEl(sender, IF isStreaming THEN id ELSE 0,
                         IF isStreaming THEN <<>> ELSE content))

\* addMessage: the entry pushed when the message is not a streaming one
addMessageHistory(h, sender, content, isStreaming) ==
    IF ~isStreaming /\ content # <<>>
    THEN Append(h, [role |-> IF sender = "bot" THEN "assistant" ELSE "user",
                    content |-> content])
    ELSE h

legacyShowTypingIndicator(dom) ==
    IF Count(dom, "typing") > 0 THEN dom ELSE Append(dom, LegacyEl("typing", 0, <<>>))

legacyHideTypingIndicator(dom) == RemoveFirst(dom, "typing")

\* the id of the next streaming container
NextLegacyEl == 1 + Cardinality({i \in 1..Len(legacyMessages) : legacyMessages[i].id > 0})

\* the element with id el shows text t
LegacyShow(dom, el, t) ==
    [i \in 1..Len(dom) |-> IF dom[i].id = el THEN [dom[i] EXCEPT !.text = t] ELSE dom[i]]

\* the guard of handleSendMessage (chat.js:94-96)
LegacySendRejected(message) == message = <<>> \/ legacyIsTyping

\* handleSendMessage and sendMessageToBot up to the await of fetch (chat.js:90-136)
legacyHandleSendMessage(message) ==
    IF LegacySendRejected(message)
    THEN /\ lastOp' = "legacy_send_rejected"
         /\ UNCHANGED <<chatVars, jobsVars, legacyVars>>
    ELSE /\ legacyStarted < MaxLegacyOps
         /\ legacyStarted' = legacyStarted + 1
         /\ legacyMessages' = legacyShowTypingIndicator(
                                  addMessageDom(legacyMessages, "user", message, FALSE, 0))
         /\ legacyChatHistory' = addMessageHistory(legacyChatHistory, "user", message, FALSE)
         /\ legacyIsTyping' = TRUE
         /\ legacyHandlers' = Append(legacyHandlers,
                [op |-> "send", stage |-> "fetch", el |-> 0, text |-> <<>>])
         /\ lastOp' = "legacy_send"
         /\ UNCHANGED <<chatVars, jobsVars, legacyResumeUploaded>>

LegacySend == \E message \in Messages : legacyHandleSendMessage(message)

\* handleFileUpload up to the await of fetch (chat.js:326-356), for a file of
\* an allowed type and size
legacyHandleFileUpload ==
    /\ legacyStarted < MaxLegacyOps
    /\ legacyStarted' = legacyStarted + 1
    /\ legacyMessages' = legacyShowTypingIndicator(
                             addMessageDom(legacyMessages, "user", UploadingText, FALSE, 0))
    /\ legacyChatHistory' = addMessageHistory(legacyChatHistory, "user", UploadingText, FALSE)
    /\ legacyHandlers' = Append(legacyHandlers,
           [op |-> "upload", stage |-> "upload", el |-> 0, text |-> <<>>])
    /\ lastOp' = "legacy_upload"
    /\ UNCHANGED <<chatVars, jobsVars, legacyIsTyping, legacyResumeUploaded>>

\* the upload is answered with status OK: the handler awaits response.json()
LegacyUploadResponded ==
    /\ \E i \in 1..Len(legacyHandlers) :
         /\ legacyHandlers[i].stage = "upload"
         /\ legacyHandlers' = [legacyHandlers EXCEPT ![i].stage = "json"]
    /\ lastOp' = "legacy_upload_responded"
    /\ UNCHANGED <<chatVars, jobsVars, legacyIsTyping, legacyChatHistory,
                   legacyResumeUploaded, legacyMessages, legacyStarted>>

\* the body of the upload response is there: the success message, then
\* analyzeResume up to the await of fetch (chat.js:356-393)
LegacyUploadOk ==
    /\ \E i \in 1..Len(legacyHandlers) :
         /\ legacyHandlers[i].stage = "json"
         /\ legacyHandlers' = [legacyHandlers EXCEPT ![i].stage = "analyze"]
    /\ legacyResumeUploaded' = TRUE
    /\ legacyMessages' = legacyShowTypingIndicator(
                             addMessageDom(legacyHideTypingIndicator(legacyMessages),
                                           "bot", UploadedText, FALSE, 0))
    /\ legacyChatHistory' = addMessageHistory(legacyChatHistory, "bot", UploadedText, FALSE)
    /\ lastOp' = "legacy_upload_ok"
    /\ UNCHANGED <<chatVars, jobsVars, legacyIsTyping, legacyStarted>>

\* the catch of handleFileUpload (chat.js:375-379) and the catch of
\* analyzeResume (chat.js:404-408): the typing indicator goes, an apology comes
LegacyApology ==
    /\ legacyMessages' = addMessageDom(legacyHideTypingIndicator(legacyMessages),
                                       "bot", SorryText, FALSE, 0)
    /\ legacyChatHistory' = addMessageHistory(legacyChatHistory, "bot", SorryText, FALSE)

\* the upload fails: fetch rejects, the status is not OK or the body is no JSON
LegacyUploadFail ==
    /\ \E i \in 1..Len(legacyHandlers) :
         /\ legacyHandlers[i].stage \in {"upload", "json"}
         /\ legacyHandlers' = RemoveAt(legacyHandlers, i)
    /\ LegacyApology
    /\ lastOp' = "legacy_upload_fail"
    /\ UNCHANGED <<chatVars, jobsVars, legacyIsTyping, legacyResumeUploaded, legacyStarted>>

\* the request of a message or of the analysis fails: for a message the
\* finally of sendMessageToBot and the catch of handleSendMessage
\* (chat.js:112-116, 145-150), for the analysis the catch of analyzeResume
LegacyFetchFail ==
    /\ \E i \in 1..Len(legacyHandlers) :
         /\ legacyHandlers[i].stage \in {"fetch", "analyze"}
         /\ legacyHandlers' = RemoveAt(legacyHandlers, i)
         /\ legacyIsTyping' = IF legacyHandlers[i].op = "send" THEN FALSE ELSE legacyIsTyping
    /\ LegacyApology
    /\ lastOp' = "legacy_fetch_fail"
    /\ UNCHANGED <<chatVars, jobsVars, legacyResumeUploaded, legacyStarted>>

\* the response of a message or of the analysis is OK: handleStreamingResponse
\* up to its first reader.read() (chat.js:156-168)
LegacyStreamOpen ==
    /\ \E i \in 1..Len(legacyHandlers) :
         /\ legacyHandlers[i].stage \in {"fetch", "analyze"}
         /\ legacyHandlers' = [legacyHandlers EXCEPT ![i].stage = "read",
                                                     ![i].el = NextLegacyEl]
    /\ legacyMessages' = addMessageDom(legacyHideTypingIndicator(legacyMessages),
                                       "bot", <<>>, TRUE, NextLegacyEl)
    /\ lastOp' = "legacy_stream_open"
    /\ UNCHANGED <<chatVars, jobsVars, legacyIsTyping, legacyChatHistory,
                   legacyResumeUploaded, legacyStarted>>

\* reader.read() returns a chunk with one content record (chat.js:169-198)
LegacyReadChunk ==
    /\ \E i \in 1..Len(legacyHandlers) :
         LET botMessage == legacyHandlers[i].text \o <<"a">>
         IN  /\ legacyHandlers[i].stage = "read"
             /\ Len(legacyHandlers[i].text) < MaxLegacyText
             /\ legacyHandlers' = [legacyHandlers EXCEPT ![i].text = botMessage]
             /\ legacyMessages' = LegacyShow(legacyMessages, legacyHandlers[i].el, botMessage)
    /\ lastOp' = "legacy_chunk"
    /\ UNCHANGED <<chatVars, jobsVars, legacyIsTyping, legacyChatHistory,
                   legacyResumeUploaded, legacyStarted>>

\* reader.read() returns done: the answer is pushed to the history
\* (chat.js:200-201); for a message the finally of sendMessageToBot follows
LegacyReadDone ==
    /\ \E i \in 1..Len(legacyHandlers) :
         /\ legacyHandlers[i].stage = "read"
         /\ legacyChatHistory' = Append(legacyChatHistory,
                [role |-> "assistant", content |-> legacyHandlers[i].text])
         /\ legacyIsTyping' = IF legacyHandlers[i].op = "send" THEN FALSE ELSE legacyIsTyping
         /\ legacyHandlers' = RemoveAt(legacyHandlers, i)
    /\ lastOp' = "legacy_done"
    /\ UNCHANGED <<chatVars, jobsVars, legacyResumeUploaded, legacyMessages, legacyStarted>>

\* reader.read() rejects: the catch of handleStreamingResponse writes an
\* apology into the container (chat.js:203-206) and does not rethrow
LegacyReadFail ==
    /\ \E i \in 1..Len(legacyHandlers) :
         /\ legacyHandlers[i].stage = "read"
         /\ legacyMessages' = LegacyShow(legacyMessages, legacyHandlers[i].el, SorryText)
         /\ legacyIsTyping' = IF legacyHandlers[i].op = "send" THEN FALSE ELSE legacyIsTyping
         /\ legacyHandlers' = RemoveAt(legacyHandlers, i)
    /\ lastOp' = "legacy_read_fail"
    /\ UNCHANGED <<chatVars, jobsVars, legacyChatHistory, legacyResumeUploaded, legacyStarted>>

----------------------------------------------------------------------------
(* State *)

\* the fields an event can change, as the record the dispatcher works on
Mgr == [content |-> currentStreamingContent, msg |-> currentStreamingMessage,
        dom |-> chatMessages, view |-> botView, sid |-> sessionId,
        ss |-> sessionState, panel |-> jobsPanel, notif |-> notification,
        jm |-> jobsManagerAvailable, nextEl |-> nextEl,
        containers |-> containers, errors |-> errorsShown,
        textSent |-> textSent, dispatched |-> dispatched, routed |-> routed]

Store(s) ==
    /\ currentStreamingContent' = s.content
    /\ currentStreamingMessage' = s.msg
    /\ chatMessages' = s.dom
    /\ botView' = s.view
    /\ sessionId' = s.sid
    /\ sessionState' = s.ss
    /\ jobsPanel' = s.panel
    /\ notification' = s.notif
    /\ nextEl' = s.nextEl
    /\ containers' = s.containers
    /\ errorsShown' = s.errors
    /\ textSent' = s.textSent
    /\ dispatched' = s.dispatched
    /\ routed' = s.routed
    /\ usedSids' = usedSids \cup {s.sid}

\* the constructor (chat.js:608-625) followed by init() (chat.js:630-640)
InitOf(JM) ==
    /\ InitJobs
    /\ InitLegacy
    /\ chatHistory = <<>>
    /\ isTyping = FALSE
    /\ resumeUploaded = FALSE
    /\ currentStreamingMessage = 0
    /\ currentStreamingContent = <<>>
    /\ sessionId = ClientSid(1)
    /\ sessionState = EmptySessionState
    /\ uploadedFile = NoFile
    /\ chatMessages = <<>>
    /\ botView = <<>>
    /\ jobsPanel = EmptyPanel
    /\ notification = "none"
    /\ jobsManagerAvailable \in JM
    /\ pc = "idle"
    /\ wire = <<>>
    /\ reqSid = NoSid
    /\ pendingClears = 0
    /\ pendingUploads = {}
    /\ pendingPrompts = 0
    /\ nextSid = 1
    /\ nextEl = 0
    /\ requests = <<>>
    /\ sentEvents = <<>>
    /\ dispatched = <<>>
    /\ routed = <<>>
    /\ textSent = <<>>
    /\ containers = 0
    /\ errorsShown = 0
    /\ usedSids = {ClientSid(1)}
    /\ emitted = 0
    /\ outstanding = 0
    /\ clears = 0
    /\ uploads = 0
    /\ lastOp = "init"

\* the page loads jobs.js, and app.js then creates window.jobsManager
Init == InitOf({TRUE})

\* The texts of the turns completed before a run of SpecHistory begins: the
\* message of the user and the answer of turn i
Digits == <<"1", "2", "3", "4", "5", "6", "7", "8", "9">>

PriorMessage(i) == <<"u", Digits[i]>>

PriorAnswer(i) == <<"a", Digits[i]>>

RECURSIVE PriorHistory(_)
PriorHistory(k) ==
    IF k = 0 THEN <<>>
    ELSE PriorHistory(k - 1) \o << [role |-> "user", content |-> PriorMessage(k)],
                                   [role |-> "assistant", content |-> PriorAnswer(k)] >>

RECURSIVE PriorMessages(_)
PriorMessages(k) ==
    IF k = 0 THEN <<>>
    ELSE PriorMessages(k - 1) \o << El("user", 0, "", ""), El("bot", k, "", "") >>

\* the manager and the page after k turns, each answered by one text event
\* and read to the end of its stream; the history variables count from here
InitAfterTurns(k) ==
    /\ InitJobs
    /\ InitLegacy
    /\ chatHistory = PriorHistory(k)
    /\ isTyping = FALSE
    /\ resumeUploaded = FALSE
    /\ currentStreamingMessage = k
    /\ currentStreamingContent = IF k = 0 THEN <<>> ELSE PriorAnswer(k)
    /\ sessionId = ClientSid(1)
    /\ sessionState = EmptySessionState
    /\ uploadedFile = NoFile
    /\ chatMessages = PriorMessages(k)
    /\ botView = [i \in 1..k |-> formatMessage(PriorAnswer(i))]
    /\ jobsPanel = EmptyPanel
    /\ notification = "none"
    /\ jobsManagerAvailable = TRUE
    /\ pc = "idle"
    /\ wire = <<>>
    /\ reqSid = IF k = 0 THEN NoSid ELSE ClientSid(1)
    /\ pendingClears = 0
    /\ pendingUploads = {}
    /\ pendingPrompts = 0
    /\ nextSid = 1
    /\ nextEl = k
    /\ requests = <<>>
    /\ sentEvents = <<>>
    /\ dispatched = IF k = 0 THEN <<>> ELSE << TextEv("text", PriorAnswer(k)) >>
    /\ routed = <<>>
    /\ textSent = IF k = 0 THEN <<>> ELSE PriorAnswer(k)
    /\ containers = IF k = 0 THEN 0 ELSE 1
    /\ errorsShown = 0
    /\ usedSids = {ClientSid(1)}
    /\ emitted = 0
    /\ outstanding = 0
    /\ clears = 0
    /\ uploads = 0
    /\ lastOp = IF k = 0 THEN "init" ELSE "done"

InitHistory == \E k \in 0..MaxPriorTurns : InitAfterTurns(k)

\* the manager and the page after the upload of a document whose prompt has
\* been shown; the history variables count from here
InitAttached ==
    /\ InitJobs
    /\ InitLegacy
    /\ chatHistory = <<>>
    /\ isTyping = FALSE
    /\ resumeUploaded = FALSE
    /\ currentStreamingMessage = 0
    /\ currentStreamingContent = <<>>
    /\ sessionId = ClientSid(1)
    /\ sessionState = EmptySessionState
    /\ uploadedFile \in {UploadedFile(f, 1) : f \in Files}
    /\ chatMessages = << El("upload-success", 0, "", ""), El("upload-prompt", 0, "", "") >>
    /\ botView = <<>>
    /\ jobsPanel = EmptyPanel
    /\ notification = "none"
    /\ jobsManagerAvailable = TRUE
    /\ pc = "idle"
    /\ wire = <<>>
    /\ reqSid = NoSid
    /\ pendingClears = 0
    /\ pendingUploads = {}
    /\ pendingPrompts = 0
    /\ nextSid = 1
    /\ nextEl = 1
    /\ requests = <<>>
    /\ sentEvents = <<>>
    /\ dispatched = <<>>
    /\ routed = <<>>
    /\ textSent = <<>>
    /\ containers = 0
    /\ errorsShown = 0
    /\ usedSids = {ClientSid(1)}
    /\ emitted = 0
    /\ outstanding = 0
    /\ clears = 0
    /\ uploads = 0
    /\ lastOp = "prompt"

\* Date.now() and Math.random() make the id differ from every earlier one
generateSessionId == ClientSid(nextSid + 1)

\* slice(0, n): the first entries instead of the last
FirstN(h, n) == IF Len(h) <= n THEN h ELSE SubSeq(h, 1, n)

\* Array.prototype.slice(-n)
LastN(h, n) == IF Len(h) <= n THEN h ELSE SubSeq(h, Len(h) - n + 1, Len(h))

----------------------------------------------------------------------------
(* The send path: handleSendMessage and sendMessageToUnifiedBot *)

\* the session id of the last complete record of d that carried one
LastSuppliedSid(d) ==
    LET I == {i \in 1..Len(d) : d[i].type = "complete" /\ d[i].sid # NoSid}
    IN  IF I = {} THEN NoSid
        ELSE d[CHOOSE i \in I : \A j \in I : j <= i].sid

\* isTyping reset at the end of the try block: not when an exception passes through
SendFinallyTypingOnReturn(threw) == IF threw THEN isTyping ELSE FALSE

\* the value the finally of sendMessageToUnifiedBot gives isTyping
\* (chat.js:792-795); threw: an exception is passing through the finally
SendFinallyTyping(threw) == FALSE

\* the guard without the test of isTyping
SendRejectedEmptyOnly(message) == message = <<>>

\* the guard of handleSendMessage (chat.js:723)
SendRejected(message) == message = <<>> \/ isTyping

\* the user entry written when the message is shown and once more when the
\* request is built
addUserMessageTwice(h, message) ==
    Append(Append(h, [role |-> "user", content |-> message]),
           [role |-> "user", content |-> message])

\* the entry addUserMessageWithAnimation adds to the history (chat.js:1451-1455)
addUserMessageWithAnimation(h, message) ==
    Append(h, [role |-> "user", content |-> message])

\* handleSendMessage up to the await of fetch in sendMessageToUnifiedBot
handleSendMessage(message) ==
    IF SendRejected(message)
    THEN /\ lastOp' = IF message = <<>> THEN "send_rejected_empty" ELSE "send_rejected_busy"
         /\ UNCHANGED <<jobsVars, legacyVars, chatHistory, isTyping, resumeUploaded, currentStreamingMessage,
                        currentStreamingContent, sessionId, sessionState, uploadedFile,
                        chatMessages, botView, jobsPanel, notification,
                        jobsManagerAvailable, pc, wire, reqSid, pendingClears,
                        pendingUploads, pendingPrompts, nextSid, nextEl, requests,
                        sentEvents, dispatched, routed, textSent, containers, errorsShown,
                        usedSids, emitted, outstanding, clears, uploads>>
    ELSE /\ Len(requests) < MaxSends
         /\ chatMessages' = Append(chatMessages, El("user", 0, "", ""))
         /\ chatHistory' = addUserMessageWithAnimation(chatHistory, message)
         /\ isTyping' = TRUE
         /\ requests' = Append(requests,
                [session_id      |-> sessionId,
                 chat_history    |-> LastN(chatHistory', HistoryWindow),
                 resume_uploaded |-> (resumeUploaded \/ uploadedFile # NoFile),
                 uploaded_file   |-> uploadedFile,
                 session_state   |-> sessionState,
                 generation      |-> nextSid,
                 supplied        |-> LastSuppliedSid(dispatched),
                 opened          |-> 0,
                 clearing        |-> 0])
         /\ dispatched' = <<>>
         /\ routed' = <<>>
         /\ pc' = "fetching"
         /\ outstanding' = outstanding + 1
         /\ errorsShown' = 0
         /\ lastOp' = "send"
         /\ UNCHANGED <<jobsVars, legacyVars, resumeUploaded, currentStreamingMessage, currentStreamingContent,
                        sessionId, sessionState, uploadedFile, botView, jobsPanel,
                        notification, jobsManagerAvailable, wire, reqSid, pendingClears,
                        pendingUploads, pendingPrompts, nextSid, nextEl, sentEvents,
                        textSent, containers, usedSids, emitted, clears, uploads>>

\* the catch logging the failure and showing nothing
SendCatchSilent(dom) == hideTypingIndicator(dom)

\* the catch of handleSendMessage (chat.js:738-745)
SendCatch(dom) == Append(hideTypingIndicator(dom), El("error", 0, "", ""))

\* fetch rejects or the status is not OK: the finally of sendMessageToUnifiedBot,
\* then the catch of handleSendMessage
FetchFail ==
    /\ pc = "fetching"
    /\ isTyping' = SendFinallyTyping(TRUE)
    /\ chatMessages' = SendCatch(hideTypingIndicator(chatMessages))
    /\ errorsShown' = errorsShown + Count(chatMessages', "error") - Count(chatMessages, "error")
    /\ pc' = "idle"
    /\ outstanding' = outstanding - 1
    /\ lastOp' = "fetch_fail"
    /\ UNCHANGED <<jobsVars, legacyVars, chatHistory, resumeUploaded, currentStreamingMessage,
                   currentStreamingContent, sessionId, sessionState, uploadedFile,
                   botView, jobsPanel, notification, jobsManagerAvailable, wire, reqSid,
                   pendingClears, pendingUploads, pendingPrompts, nextSid, nextEl,
                   requests, sentEvents, dispatched, routed, textSent, containers, usedSids,
                   emitted, clears, uploads>>

\* the response is OK: handleUnifiedStreamingResponse up to its first reader.read()
\* (track: the specification writes down when the reading began)
FetchOkOf(track) ==
    /\ pc = "fetching"
    /\ currentStreamingMessage' = 0
    /\ currentStreamingContent' = <<>>
    /\ pc' = "reading"
    /\ wire' = <<>>
    /\ reqSid' = requests[Len(requests)].session_id
    /\ requests' = IF track
                   THEN [requests EXCEPT ![Len(requests)].opened = nextSid,
                                         ![Len(requests)].clearing = pendingClears]
                   ELSE requests
    /\ sentEvents' = <<>>
    /\ textSent' = <<>>
    /\ containers' = 0
    /\ lastOp' = "fetch_ok"
    /\ UNCHANGED <<jobsVars, legacyVars, chatHistory, isTyping, resumeUploaded, sessionId, sessionState,
                   uploadedFile, chatMessages, botView, jobsPanel, notification,
                   jobsManagerAvailable, pendingClears, pendingUploads, pendingPrompts,
                   nextSid, nextEl, dispatched, routed, errorsShown, usedSids,
                   emitted, outstanding, clears, uploads>>

----------------------------------------------------------------------------
(* The read loop of handleUnifiedStreamingResponse *)

\* the remainders a cut may leave on the wire: less than one record
RecordLen == Len(Encode(EvBase("")))

\* reader.read() returns a chunk: the server has added the records evs to the
\* wire, the reader returns the first cut characters, and every line of the
\* chunk is decoded and dispatched before the next read
\* (log: the specification writes down the records sent; max: the number of
\* records the servers of the specification send in a run)
ReadChunkUpTo(E(_), log, max) ==
    /\ pc = "reading"
    /\ \E n \in 0..MaxChunk :
         /\ emitted + n <= max
         /\ \E evs \in [1..n -> E(reqSid)] :
              LET full == wire \o EncodeAll(evs)
              IN  \E cut \in 1..Len(full) :
                    /\ Len(full) - cut < RecordLen
                    /\ Store(ProcessLines(Mgr, Split(SubSeq(full, 1, cut))))
                    /\ wire' = SubSeq(full, cut + 1, Len(full))
                    /\ sentEvents' = IF log THEN sentEvents \o evs ELSE sentEvents
                    /\ emitted' = emitted + n
    /\ lastOp' = "chunk"
    /\ UNCHANGED <<jobsVars, legacyVars, chatHistory, isTyping, resumeUploaded, uploadedFile,
                   jobsManagerAvailable, pc, reqSid, pendingClears, pendingUploads,
                   pendingPrompts, nextSid, requests, outstanding, clears, uploads>>

ReadChunkOf(E(_), log) == ReadChunkUpTo(E, log, MaxEvents)

\* the finally of handleUnifiedStreamingResponse (chat.js:846-858)
StreamFinallyDom(dom) ==
    hideToolExecutionIndicator(hideWebSearchIndicator(hideTypingIndicator(dom)))

\* the entry written when the complete record is handled and once more in the finally
StreamFinallyHistoryTwice(h) ==
    IF currentStreamingContent # <<>>
    THEN Append(Append(h, [role |-> "assistant", content |-> currentStreamingContent]),
                [role |-> "assistant", content |-> currentStreamingContent])
    ELSE h

StreamFinallyHistory(h) ==
    IF currentStreamingContent # <<>>
    THEN Append(h, [role |-> "assistant", content |-> currentStreamingContent])
    ELSE h

\* reader.read() returns done: the finally of handleUnifiedStreamingResponse,
\* then the finally of sendMessageToUnifiedBot
ReadDone ==
    /\ pc = "reading"
    /\ wire = <<>>
    /\ chatMessages' = hideTypingIndicator(StreamFinallyDom(chatMessages))
    /\ chatHistory' = StreamFinallyHistory(chatHistory)
    /\ isTyping' = SendFinallyTyping(FALSE)
    /\ pc' = "idle"
    /\ outstanding' = outstanding - 1
    /\ lastOp' = "done"
    /\ UNCHANGED <<jobsVars, legacyVars, resumeUploaded, currentStreamingMessage, currentStreamingContent,
                   sessionId, sessionState, uploadedFile, botView, jobsPanel,
                   notification, jobsManagerAvailable, wire, reqSid, pendingClears,
                   pendingUploads, pendingPrompts, nextSid, nextEl, requests,
                   sentEvents, dispatched, routed, textSent, containers, errorsShown, usedSids,
                   emitted, clears, uploads>>

\* the catch showing its message and rethrowing, so that the catch of
\* handleSendMessage shows a second one
StreamCatchRethrow(dom) == Append(Append(dom, El("error", 0, "", "")), El("error", 0, "", ""))

\* the catch of handleUnifiedStreamingResponse (chat.js:843-845): it shows one
\* message and does not rethrow, so the catch of handleSendMessage stays out
StreamCatch(dom) == Append(dom, El("error", 0, "", ""))

\* reader.read() rejects: the catch and the finally of
\* handleUnifiedStreamingResponse, then the finally of sendMessageToUnifiedBot
ReadFail ==
    /\ pc = "reading"
    /\ chatMessages' = hideTypingIndicator(StreamFinallyDom(StreamCatch(chatMessages)))
    /\ errorsShown' = errorsShown + Count(chatMessages', "error") - Count(chatMessages, "error")
    /\ chatHistory' = StreamFinallyHistory(chatHistory)
    /\ isTyping' = SendFinallyTyping(FALSE)
    /\ pc' = "idle"
    /\ wire' = <<>>
    /\ outstanding' = outstanding - 1
    /\ lastOp' = "read_fail"
    /\ UNCHANGED <<jobsVars, legacyVars, resumeUploaded, currentStreamingMessage, currentStreamingContent,
                   sessionId, sessionState, uploadedFile, botView, jobsPanel,
                   notification, jobsManagerAvailable, reqSid, pendingClears,
                   pendingUploads, pendingPrompts, nextSid, nextEl, requests,
                   sentEvents, dispatched, routed, textSent, containers, usedSids, emitted,
                   clears, uploads>>

----------------------------------------------------------------------------
(* clearSession *)

\* clearSession up to the await of the DELETE request
ClearStart ==
    /\ clears < MaxClears
    /\ clears' = clears + 1
    /\ pendingClears' = pendingClears + 1
    /\ lastOp' = "clear_start"
    /\ UNCHANGED <<jobsVars, legacyVars, chatHistory, isTyping, resumeUploaded, currentStreamingMessage,
                   currentStreamingContent, sessionId, sessionState, uploadedFile,
                   chatMessages, botView, jobsPanel, notification,
                   jobsManagerAvailable, pc, wire, reqSid, pendingUploads,
                   pendingPrompts, nextSid, nextEl, requests, sentEvents, dispatched, routed,
                   textSent, containers, errorsShown, usedSids, emitted, outstanding,
                   uploads>>

\* the DELETE request resolves, with whatever status: the rest of the try block
ClearResolved ==
    /\ pendingClears > 0
    /\ pendingClears' = pendingClears - 1
    /\ chatHistory' = <<>>
    /\ sessionState' = EmptySessionState
    /\ resumeUploaded' = FALSE
    /\ sessionId' = generateSessionId
    /\ nextSid' = nextSid + 1
    /\ usedSids' = usedSids \cup {generateSessionId}
    /\ chatMessages' = clearChatUI(chatMessages)
    /\ notification' = "success"
    /\ lastOp' = "clear_ok"
    /\ UNCHANGED <<jobsVars, legacyVars, isTyping, currentStreamingMessage, currentStreamingContent,
                   uploadedFile, botView, jobsPanel, jobsManagerAvailable, pc, wire,
                   reqSid, pendingUploads, pendingPrompts, nextEl, requests,
                   sentEvents, dispatched, routed, textSent, containers, errorsShown, emitted,
                   outstanding, clears, uploads>>

\* the DELETE request rejects: the catch block
ClearRejected ==
    /\ pendingClears > 0
    /\ pendingClears' = pendingClears - 1
    /\ notification' = "error"
    /\ lastOp' = "clear_fail"
    /\ UNCHANGED <<jobsVars, legacyVars, chatHistory, isTyping, resumeUploaded, currentStreamingMessage,
                   currentStreamingContent, sessionId, sessionState, uploadedFile,
                   chatMessages, botView, jobsPanel, jobsManagerAvailable, pc, wire,
                   reqSid, pendingUploads, pendingPrompts, nextSid, nextEl, requests,
                   sentEvents, dispatched, routed, textSent, containers, errorsShown, usedSids,
                   emitted, outstanding, clears, uploads>>

----------------------------------------------------------------------------
(* handleFileUpload *)

IndexOfEl(dom, el) ==
    IF \E i \in 1..Len(dom) : dom[i].id = el
    THEN CHOOSE i \in 1..Len(dom) : dom[i].id = el
    ELSE 0

\* handleFileUpload up to the await of the upload request
UploadStart(file) ==
    /\ uploads < MaxUploads
    /\ uploads' = uploads + 1
    /\ chatMessages' = Append(chatMessages, El("upload-indicator", nextEl + 1, "", ""))
    /\ nextEl' = nextEl + 1
    /\ pendingUploads' = pendingUploads \cup {[file |-> file, el |-> nextEl + 1]}
    /\ lastOp' = "upload_start"
    /\ UNCHANGED <<jobsVars, legacyVars, chatHistory, isTyping, resumeUploaded, currentStreamingMessage,
                   currentStreamingContent, sessionId, sessionState, uploadedFile,
                   botView, jobsPanel, notification, jobsManagerAvailable, pc, wire,
                   reqSid, pendingClears, pendingPrompts, nextSid, requests,
                   sentEvents, dispatched, routed, textSent, containers, errorsShown, usedSids,
                   emitted, outstanding, clears>>

\* the upload request resolves OK.  removeChild throws when the indicator is
\* no longer a child of #chat-messages, and the catch block then reports a failure
UploadOk(u) ==
    /\ u \in pendingUploads
    /\ pendingUploads' = pendingUploads \ {u}
    /\ IF IndexOfEl(chatMessages, u.el) # 0
       THEN /\ chatMessages' = Append(RemoveAt(chatMessages, IndexOfEl(chatMessages, u.el)),
                                      El("upload-success", 0, "", ""))
            /\ uploadedFile' = UploadedFile(u.file, u.el)
            /\ pendingPrompts' = pendingPrompts + 1
            /\ lastOp' = "upload_ok"
       ELSE /\ chatMessages' = Append(chatMessages, El("upload-error", 0, "", ""))
            /\ lastOp' = "upload_lost"
            /\ UNCHANGED <<jobsVars, legacyVars, uploadedFile, pendingPrompts>>
    /\ UNCHANGED <<jobsVars, legacyVars, chatHistory, isTyping, resumeUploaded, currentStreamingMessage,
                   currentStreamingContent, sessionId, sessionState, botView, jobsPanel,
                   notification, jobsManagerAvailable, pc, wire, reqSid, pendingClears,
                   nextSid, nextEl, requests, sentEvents, dispatched, routed, textSent,
                   containers, errorsShown, usedSids, emitted, outstanding, clears,
                   uploads>>

\* the catch block detaching the document attached before
UploadFailDetaches(u) ==
    /\ u \in pendingUploads
    /\ pendingUploads' = pendingUploads \ {u}
    /\ chatMessages' =
          Append(IF IndexOfEl(chatMessages, u.el) # 0
                 THEN RemoveAt(chatMessages, IndexOfEl(chatMessages, u.el))
                 ELSE chatMessages,
                 El("upload-error", 0, "", ""))
    /\ uploadedFile' = NoFile
    /\ lastOp' = "upload_fail"
    /\ UNCHANGED <<jobsVars, legacyVars, chatHistory, isTyping, resumeUploaded, currentStreamingMessage,
                   currentStreamingContent, sessionId, sessionState,
                   botView, jobsPanel, notification, jobsManagerAvailable, pc, wire,
                   reqSid, pendingClears, pendingPrompts, nextSid, nextEl, requests,
                   sentEvents, dispatched, routed, textSent, containers, errorsShown, usedSids,
                   emitted, outstanding, clears, uploads>>

\* the upload request rejects or its status is not OK: the catch block
UploadFail(u) ==
    /\ u \in pendingUploads
    /\ pendingUploads' = pendingUploads \ {u}
    /\ chatMessages' =
          Append(IF IndexOfEl(chatMessages, u.el) # 0
                 THEN RemoveAt(chatMessages, IndexOfEl(chatMessages, u.el))
                 ELSE chatMessages,
                 El("upload-error", 0, "", ""))
    /\ lastOp' = "upload_fail"
    /\ UNCHANGED <<jobsVars, legacyVars, chatHistory, isTyping, resumeUploaded, currentStreamingMessage,
                   currentStreamingContent, sessionId, sessionState, uploadedFile,
                   botView, jobsPanel, notification, jobsManagerAvailable, pc, wire,
                   reqSid, pendingClears, pendingPrompts, nextSid, nextEl, requests,
                   sentEvents, dispatched, routed, textSent, containers, errorsShown, usedSids,
                   emitted, outstanding, clears, uploads>>

\* the timer set after a successful upload fires
showUploadCompleteMessage ==
    /\ pendingPrompts > 0
    /\ pendingPrompts' = pendingPrompts - 1
    /\ chatMessages' = Append(chatMessages, El("upload-prompt", 0, "", ""))
    /\ lastOp' = "prompt"
    /\ UNCHANGED <<jobsVars, legacyVars, chatHistory, isTyping, resumeUploaded, currentStreamingMessage,
                   currentStreamingContent, sessionId, sessionState, uploadedFile,
                   botView, jobsPanel, notification, jobsManagerAvailable, pc, wire,
                   reqSid, pendingClears, pendingUploads, nextSid, nextEl, requests,
                   sentEvents, dispatched, routed, textSent, containers, errorsShown, usedSids,
                   emitted, outstanding, clears, uploads>>

----------------------------------------------------------------------------
(* Specification *)

Send == \E message \in Messages : handleSendMessage(message)

FetchOk == FetchOkOf(FALSE)

FetchOpened == FetchOkOf(TRUE)

Upload == \E file \in Files : UploadStart(file)

UploadDone == \E u \in pendingUploads : UploadOk(u)

UploadError == \E u \in pendingUploads : UploadFail(u)

ReadChunk == ReadChunkOf(DialogueEvents, FALSE)

ReadToolChunk == ReadChunkOf(ToolEvents, FALSE)

ReadSessionChunk == ReadChunkOf(SessionEvents, FALSE)

ReadUploadChunk == ReadChunkOf(UploadEvents, FALSE)

ReadLoggedChunk == ReadChunkOf(DecodeEvents, TRUE)

ReadFaultChunk == ReadChunkOf(FaultEvents, FALSE)

ReadMatchChunk == ReadChunkOf(MatchEvents, FALSE)

ReadJobDataChunk == ReadChunkOf(JobDataEvents, FALSE)

ReadFaultyLineChunk == ReadChunkOf(FaultyLineEvents, TRUE)

ReadMarkdownChunk == ReadChunkOf(MarkdownEvents, FALSE)

ReadUnknownChunk == ReadChunkOf(UnknownEvents, FALSE)

ReadLazyChunk == ReadChunkOf(LazyEvents, FALSE)

ReadThrowChunk == ReadChunkOf(ThrowEvents, TRUE)

ReadWebSearchChunk == ReadChunkUpTo(WebSearchEvents, FALSE, MaxScript)

ReadListChunk == ReadChunkOf(ListEvents, FALSE)

\* turns and session clears, with the streams of a dialogue
Next ==
    \/ Send
    \/ FetchOk
    \/ FetchFail
    \/ ReadChunk
    \/ ReadDone
    \/ ReadFail
    \/ ClearStart
    \/ ClearResolved
    \/ ClearRejected

Spec == Init /\ [][Next]_vars

\* turns, with streams of tool records
NextTools ==
    \/ Send
    \/ FetchOk
    \/ FetchFail
    \/ ReadToolChunk
    \/ ReadDone
    \/ ReadFail

SpecTools == Init /\ [][NextTools]_vars

\* turns and session clears, with streams that end in a complete record
NextSession ==
    \/ Send
    \/ FetchOk
    \/ FetchFail
    \/ ReadSessionChunk
    \/ ReadDone
    \/ ReadFail
    \/ ClearStart
    \/ ClearResolved
    \/ ClearRejected

SpecSession == Init /\ [][NextSession]_vars

\* turns, uploads and session clears, with streams of one text
NextUpload ==
    \/ Send
    \/ FetchOk
    \/ FetchFail
    \/ ReadUploadChunk
    \/ ReadDone
    \/ ReadFail
    \/ ClearStart
    \/ ClearResolved
    \/ ClearRejected
    \/ Upload
    \/ UploadDone
    \/ UploadError
    \/ showUploadCompleteMessage

SpecUpload == Init /\ [][NextUpload]_vars

\* turns, with the records sent and the records dispatched written down
NextDecode ==
    \/ Send
    \/ FetchOk
    \/ FetchFail
    \/ ReadLoggedChunk
    \/ ReadDone
    \/ ReadFail

SpecDecode == Init /\ [][NextDecode]_vars

\* turns whose streams carry a line that is not JSON, with the lines sent
\* and the records dispatched written down
NextFaultyLine ==
    \/ Send
    \/ FetchOk
    \/ FetchFail
    \/ ReadFaultyLineChunk
    \/ ReadDone
    \/ ReadFail

SpecFaultyLine == Init /\ [][NextFaultyLine]_vars

\* turns whose streams carry job_data records
NextJobData ==
    \/ Send
    \/ FetchOk
    \/ FetchFail
    \/ ReadJobDataChunk
    \/ ReadDone
    \/ ReadFail

SpecJobData == Init /\ [][NextJobData]_vars

\* turns whose streams carry job data and results of the job matching tool
NextMatch ==
    \/ Send
    \/ FetchOk
    \/ FetchFail
    \/ ReadMatchChunk
    \/ ReadDone
    \/ ReadFail

SpecMatch == Init /\ [][NextMatch]_vars

\* the same turns on a page where jobs.js did not load: app.js sets
\* window.jobsManager only when the class JobsManager is defined
SpecMatchAlone == InitOf({FALSE}) /\ [][NextMatch]_vars

\* turns that begin after up to MaxPriorTurns completed turns
NextHistory ==
    \/ Send
    \/ FetchOk
    \/ FetchFail
    \/ ReadUploadChunk
    \/ ReadDone
    \/ ReadFail

SpecHistory == InitHistory /\ [][NextHistory]_vars

\* turns, one upload and session clears, on a page with a document attached
SpecAttached == InitAttached /\ [][NextUpload]_vars

\* turns whose streams carry the records of a web search
NextWebSearch ==
    \/ Send
    \/ FetchOk
    \/ FetchFail
    \/ ReadWebSearchChunk
    \/ ReadDone
    \/ ReadFail

SpecWebSearch == Init /\ [][NextWebSearch]_vars

\* turns whose streams carry records that come before the visible text
NextLazy ==
    \/ Send
    \/ FetchOk
    \/ FetchFail
    \/ ReadLazyChunk
    \/ ReadDone
    \/ ReadFail

SpecLazy == Init /\ [][NextLazy]_vars

\* turns whose streams carry records of a type the client does not know
NextUnknown ==
    \/ Send
    \/ FetchOk
    \/ FetchFail
    \/ ReadUnknownChunk
    \/ ReadDone
    \/ ReadFail

SpecUnknown == Init /\ [][NextUnknown]_vars

\* turns whose streams carry Markdown text with code in it
NextMarkdown ==
    \/ Send
    \/ FetchOk
    \/ FetchFail
    \/ ReadMarkdownChunk
    \/ ReadDone
    \/ ReadFail

SpecMarkdown == Init /\ [][NextMarkdown]_vars

\* turns whose streams carry Markdown text with lists in it
NextLists ==
    \/ Send
    \/ FetchOk
    \/ FetchFail
    \/ ReadListChunk
    \/ ReadDone
    \/ ReadFail

SpecLists == Init /\ [][NextLists]_vars

\* turns whose streams carry records whose handling raises an exception, with
\* the records sent and the records dispatched written down
NextThrow ==
    \/ Send
    \/ FetchOk
    \/ FetchFail
    \/ ReadThrowChunk
    \/ ReadDone
    \/ ReadFail

SpecThrow == Init /\ [][NextThrow]_vars

\* the messages and the uploads of the legacy manager
NextLegacy ==
    \/ LegacySend
    \/ legacyHandleFileUpload
    \/ LegacyUploadResponded
    \/ LegacyUploadOk
    \/ LegacyUploadFail
    \/ LegacyFetchFail
    \/ LegacyStreamOpen
    \/ LegacyReadChunk
    \/ LegacyReadDone
    \/ LegacyReadFail

SpecLegacy == Init /\ [][NextLegacy]_vars

\* the searches of the left panel
NextJobs ==
    \/ TypeJobTitle
    \/ handleJobSearch
    \/ SearchResponded
    \/ SearchHttpError
    \/ SearchNetworkFailure
    \/ SearchBodyFailure
    \/ SearchSucceeded

SpecJobs == Init /\ [][NextJobs]_vars

\* turns whose streams carry text and error records
NextFault ==
    \/ Send
    \/ FetchOk
    \/ FetchFail
    \/ ReadFaultChunk
    \/ ReadDone
    \/ ReadFail

\* turns and session clears, with streams of text and error records and the
\* beginning of each reading written down
NextCancel ==
    \/ Send
    \/ FetchOpened
    \/ FetchFail
    \/ ReadFaultChunk
    \/ ReadDone
    \/ ReadFail
    \/ ClearStart
    \/ ClearResolved
    \/ ClearRejected

SpecCancel == Init /\ [][NextCancel]_vars

\* The promise of fetch and the promise of reader.read() settle, and the event
\* loop then runs the handler from its await: an awaited request is answered
\* or fails, an awaited read returns a chunk, the end of the stream or a failure.
SpecFault ==
    /\ Init
    /\ [][NextFault]_vars
    /\ WF_vars(FetchOk \/ FetchFail)
    /\ WF_vars(ReadFaultChunk \/ ReadDone \/ ReadFail)

----------------------------------------------------------------------------
(* Properties *)

\* C1: chunk-boundary independence.  When a stream of well-formed records has
\* been read to its end, the events dispatched are the events of the records
\* sent, in their order, however the stream was cut into chunks.
ChunkBoundaryIndependence == lastOp = "done" => dispatched = sentEvents

\* C2: accumulation correctness.  The accumulated text is the concatenation,
\* in arrival order, of the contents of the text and text_delta events
\* dispatched in the turn, and the view of an existing message container is
\* the rendering of the whole accumulated text.
AccumulationCorrect ==
    /\ currentStreamingContent = textSent
    /\ currentStreamingMessage # 0 =>
          botView[currentStreamingMessage] = formatMessage(currentStreamingContent)

\* a text and a text_delta have been dispatched and rendered in one container
AccumulationWitness ==
    /\ pc = "reading"
    /\ currentStreamingMessage # 0
    /\ Len(dispatched) = 2
    /\ dispatched[1].type = "text" /\ dispatched[2].type = "text_delta"
    /\ currentStreamingContent = <<"a", "<">>
    /\ botView[currentStreamingMessage] = <<"a", "&lt;">>

\* C3: single active message.  At most one turn is in flight, the text events
\* of a turn have created at most one bot message container, and that
\* container is the open message.
SingleActiveMessage ==
    /\ outstanding <= 1
    /\ containers <= 1
    /\ currentStreamingMessage # 0 <=> containers = 1

\* text, the end of a tool, then text again: still one container
ResumeAfterToolWitness ==
    /\ pc = "reading"
    /\ Len(dispatched) = 3
    /\ dispatched[1].type = "text"
    /\ dispatched[2].type = "tool_execution_complete"
    /\ dispatched[3].type = "text_delta"
    /\ containers = 1
    /\ Count(chatMessages, "bot") = 1
    /\ botView[currentStreamingMessage] = <<"a", "&lt;">>

UserEntries(h) == Cardinality({i \in 1..Len(h) : h[i].role = "user"})

\* C4: turn guard.  While a turn is in flight isTyping is true, at most one
\* request is outstanding, and no step taken while isTyping is true issues a
\* request, adds a user entry to chatHistory or adds a user message.
TurnGuard ==
    /\ [](pc # "idle" => isTyping)
    /\ [](outstanding <= 1)
    /\ [][isTyping => /\ requests' = requests
                      /\ UserEntries(chatHistory') <= UserEntries(chatHistory)
                      /\ Count(chatMessages', "user") <= Count(chatMessages, "user")]_vars

\* a message was sent while the stream of the turn was being read, and rejected
TurnGuardWitness ==
    /\ lastOp = "send_rejected_busy"
    /\ pc = "reading"
    /\ isTyping
    /\ Len(requests) = 1

\* C5: indicator exclusivity.  At most one tool indicator (web-search or
\* tool-execution) is visible at any time.
IndicatorExclusivity == Indicators(chatMessages) <= 1

\* C6: after clearSession() has finished with its DELETE resolved, the session
\* id is one the manager never held, chatHistory is empty, uploadedFile is
\* cleared and sessionState is reset.
ClearResetsEverything ==
    [][lastOp' = "clear_ok" =>
          /\ sessionId' \notin usedSids
          /\ chatHistory' = <<>>
          /\ uploadedFile' = NoFile
          /\ sessionState' = EmptySessionState]_vars

\* C7: when the DELETE of clearSession() is rejected, the local reset of the
\* session id, the history, the attached document and the tool-result cache
\* is still performed.
ClearFailureStillResets ==
    [][lastOp' = "clear_fail" =>
          /\ sessionId' \notin usedSids
          /\ chatHistory' = <<>>
          /\ sessionState' = EmptySessionState
          /\ uploadedFile' = NoFile
          /\ resumeUploaded' = FALSE]_vars

\* requests i and i+1 were sent with no session clear taking effect between them
Sequential(i) == requests[i + 1].generation = requests[i].generation

\* C8 as claimed: the second of two sequential turns carries the session id
\* of the first, whatever the stream of the first carried.
SessionContinuityAlways ==
    \A i \in 1..(Len(requests) - 1) :
        Sequential(i) => requests[i + 1].session_id = requests[i].session_id

\* C8, amended: the second of two sequential turns carries the session id of
\* the first, unless the stream of the first dispatched a complete record
\* with a session id: then it carries the session id of the last such record.
SessionContinuity ==
    \A i \in 1..(Len(requests) - 1) :
        Sequential(i) =>
            requests[i + 1].session_id =
                IF requests[i + 1].supplied # NoSid
                THEN requests[i + 1].supplied
                ELSE requests[i].session_id

\* the first turn's stream supplied a session id, and the second turn carries it
SessionContinuityWitness ==
    /\ Len(requests) = 2
    /\ Sequential(1)
    /\ requests[1].session_id = ClientSid(1)
    /\ requests[2].supplied = ServerSid
    /\ requests[2].session_id = ServerSid

\* C9: an error event is terminal for the turn.  At most one error message
\* is shown in a turn, and once an error event has been dispatched no later
\* chunk of the stream changes the accumulated text, the messages or the
\* indicators.
ErrorIsTerminal ==
    /\ [](errorsShown <= 1)
    /\ [][(pc = "reading" /\ errorsShown >= 1 /\ lastOp' = "chunk") =>
             /\ currentStreamingContent' = currentStreamingContent
             /\ botView' = botView
             /\ chatMessages' = chatMessages]_vars

BotElements(dom) == SelectSeq(dom, LAMBDA e : e.kind = "bot")

\* C10: when reader.read() fails the text already rendered stays in place,
\* exactly one error message is appended, and no request is issued: the turn
\* is over.
StreamErrorHandled ==
    [][lastOp' = "read_fail" =>
          /\ Count(chatMessages', "error") = Count(chatMessages, "error") + 1
          /\ errorsShown' = errorsShown + 1
          /\ BotElements(chatMessages') = BotElements(chatMessages)
          /\ botView' = botView
          /\ currentStreamingContent' = currentStreamingContent
          /\ requests' = requests
          /\ pc' = "idle"
          /\ outstanding' = 0]_vars

\* the read failed after the text "a" had been rendered
StreamErrorWitness ==
    /\ lastOp = "read_fail"
    /\ currentStreamingMessage # 0
    /\ botView[currentStreamingMessage] = <<"a">>
    /\ Count(chatMessages, "bot") = 1
    /\ Count(chatMessages, "error") = 1
    /\ Len(requests) = 1

AssistantEntries(h) == Cardinality({i \in 1..Len(h) : h[i].role = "assistant"})

\* the events a step has handed to processUnifiedEvent
NewlyDispatched == SubSeq(dispatched', Len(dispatched) + 1, Len(dispatched'))

\* C11: a turn whose stream dispatched a complete record leaves, when the
\* reading is over, exactly one more entry in chatHistory: an assistant entry
\* whose content is the concatenation of the texts dispatched in the turn; no
\* chunk adds an assistant entry; and a chunk sets the session id to the
\* session_id of its last complete record that carries one, and leaves it
\* unchanged when there is none.
CompleteFlushesTurn ==
    /\ [][(lastOp' \in {"done", "read_fail"} /\ textSent # <<>>
             /\ \E i \in 1..Len(dispatched) : dispatched[i].type = "complete") =>
              chatHistory' = Append(chatHistory,
                                    [role |-> "assistant", content |-> textSent])]_vars
    /\ [][lastOp' = "chunk" =>
              /\ AssistantEntries(chatHistory') = AssistantEntries(chatHistory)
              /\ sessionId' = IF LastSuppliedSid(NewlyDispatched) # NoSid
                              THEN LastSuppliedSid(NewlyDispatched)
                              ELSE sessionId]_vars

\* text, text, complete with a session id: one assistant entry "aa", and the
\* session id is the server's
CompleteFlushesWitness ==
    /\ lastOp = "done"
    /\ Len(dispatched) = 3
    /\ dispatched[1].type = "text" /\ dispatched[2].type = "text"
    /\ dispatched[3] = DoneEv(ServerSid)
    /\ chatHistory = << [role |-> "user", content |-> <<"hi">>],
                        [role |-> "assistant", content |-> <<"a", "a">>] >>
    /\ sessionId = ServerSid

AttachmentNextTurnOnly ==
    \A i, j \in 1..Len(requests) :
        (i < j /\ requests[i].uploaded_file # NoFile) =>
            requests[j].uploaded_file # requests[i].uploaded_file

\* clearSession() was called after the reading of the stream began, and has
\* taken effect
ClearedWhileReading ==
    /\ pc = "reading"
    /\ requests[Len(requests)].clearing = 0
    /\ requests[Len(requests)].opened < nextSid

\* C14: a session clear cancels the stream being read.  Once the clear has
\* taken effect, no chunk of the abandoned stream adds or changes anything
\* under #chat-messages, no message container is created, and the view of no
\* message changes.
ClearCancelsStream ==
    [][(ClearedWhileReading /\ lastOp' = "chunk") =>
          /\ chatMessages' = chatMessages
          /\ containers' = containers
          /\ botView' = botView]_vars

\* C15: a line that is not JSON is dropped and nothing else is.  When a stream
\* made of one such line followed by well-formed records has been read to its
\* end, the events dispatched are those of the well-formed records, in their
\* order, and the turn has shown no error message.
MalformedLineDropped ==
    (/\ lastOp = "done"
     /\ Len(sentEvents) >= 2
     /\ sentEvents[1] = BadLine
     /\ \A i \in 2..Len(sentEvents) : sentEvents[i] # BadLine) =>
        /\ dispatched = Tail(sentEvents)
        /\ errorsShown = 0

\* the calls of displayJobsInPanel that the job_data events of d ask for
RECURSIVE JobDataCalls(_)
JobDataCalls(d) ==
    IF d = <<>> THEN <<>>
    ELSE (IF Head(d).type = "job_data" /\ Head(d).jobs >= 0
          THEN << [jobs |-> Head(d).jobs,
                   tag  |-> IF Head(d).mt = "" THEN "general" ELSE Head(d).mt] >>
          ELSE <<>>) \o JobDataCalls(Tail(d))

\* C16: a job_data event is forwarded at once.  The chunk that dispatches
\* job_data events makes, for each of them and in their order, one call of
\* displayJobsInPanel with the jobs and the match_type of the event, whatever
\* came before in the turn, and when the chunk has been processed the panel
\* shows the jobs of the last call.
JobDataForwarded ==
    [][lastOp' = "chunk" =>
          /\ routed' = routed \o JobDataCalls(NewlyDispatched)
          /\ JobDataCalls(NewlyDispatched) # <<>> =>
                /\ jobsPanel'.shown
                /\ jobsPanel'.jobs = routed'[Len(routed')].jobs
                /\ jobsPanel'.tag = routed'[Len(routed')].tag]_vars

\* one job tagged personalized arrives while a tool is announced and before
\* any text: one call, with 1 job and the tag personalized
JobDataForwardedWitness ==
    /\ pc = "reading"
    /\ dispatched = << BlockEv("server_tool_use", "analyze_resume"),
                       JobsEv(1, "personalized") >>
    /\ Count(chatMessages, "tool") = 1
    /\ currentStreamingMessage = 0
    /\ routed = << [jobs |-> 1, tag |-> "personalized"] >>
    /\ jobsPanel.jobs = 1 /\ jobsPanel.tag = "personalized"

\* C17: a job_data event touches nothing of the conversation.  A chunk that
\* dispatches job_data events only leaves the accumulated text, the open
\* message and its view, the elements under #chat-messages (the tool
\* indicators among them), chatHistory and the session id as they were.
JobDataFrame ==
    [][(/\ lastOp' = "chunk"
        /\ NewlyDispatched # <<>>
        /\ \A i \in 1..Len(NewlyDispatched) : NewlyDispatched[i].type = "job_data") =>
          /\ currentStreamingContent' = currentStreamingContent
          /\ currentStreamingMessage' = currentStreamingMessage
          /\ botView' = botView
          /\ chatMessages' = chatMessages
          /\ chatHistory' = chatHistory
          /\ sessionId' = sessionId]_vars

\* job data has arrived after a text and the announcement of a tool: the
\* text, its message and the indicator are as they were
JobDataFrameWitness ==
    /\ lastOp = "chunk"
    /\ dispatched = << TextEv("text", <<"a">>),
                       BlockEv("server_tool_use", "analyze_resume"),
                       JobsEv(2, "") >>
    /\ routed = << [jobs |-> 2, tag |-> "general"] >>
    /\ currentStreamingContent = <<"a">>
    /\ currentStreamingMessage # 0
    /\ Count(chatMessages, "tool") = 1

\* the last event of the chunk just processed is a result of the job matching
\* tool that carries matches
MatchResultProcessed ==
    /\ lastOp' = "chunk"
    /\ NewlyDispatched # <<>>
    /\ NewlyDispatched[Len(NewlyDispatched)] = ResultEv("match_jobs_with_resume", "matches")

\* C18: the matches of the job matching tool are routed to the job panel with
\* the tag personalized, and the panel shows the personalized-match indicator.
MatchesTaggedPersonalized ==
    [][MatchResultProcessed =>
          /\ routed' # <<>>
          /\ routed'[Len(routed')].tag = "personalized"
          /\ jobsPanel'.shown
          /\ jobsPanel'.personalized]_vars

\* the number of jobs an event carries for the job panel, -1 when it carries none
JobsCarried(e) ==
    CASE e.type = "job_data" -> e.jobs
      [] e = ResultEv("match_jobs_with_resume", "matches") -> 1
      [] OTHER -> -1

\* C19: without window.jobsManager the jobs are still displayed.  When the
\* last event of a chunk carries jobs, as a job_data event or as the result of
\* the job matching tool, the job panel shows them afterwards, drawn by
\* fallbackDisplayJobs, and the turn has shown no error message.
FallbackDisplaysJobs ==
    [][(/\ ~jobsManagerAvailable
        /\ lastOp' = "chunk"
        /\ NewlyDispatched # <<>>
        /\ JobsCarried(NewlyDispatched[Len(NewlyDispatched)]) >= 0) =>
          /\ jobsPanel'.shown
          /\ jobsPanel'.jobs = JobsCarried(NewlyDispatched[Len(NewlyDispatched)])
          /\ jobsPanel'.by = "fallback"
          /\ errorsShown' = errorsShown]_vars

\* a is b with some of its elements left out
RECURSIVE IsSubsequence(_, _)
IsSubsequence(a, b) ==
    IF a = <<>> THEN TRUE
    ELSE IF b = <<>> THEN FALSE
    ELSE IF Head(a) = Head(b) THEN IsSubsequence(Tail(a), Tail(b))
    ELSE IsSubsequence(a, Tail(b))

\* the concatenation of the contents of the text events of d
RECURSIVE TextOf(_)
TextOf(d) ==
    IF d = <<>> THEN <<>>
    ELSE (IF Head(d).type \in {"text", "text_delta"} THEN Head(d).content ELSE <<>>)
         \o TextOf(Tail(d))

\* C20: strict FIFO.  The events dispatched are events of the records sent,
\* in the order of the records, and whenever the read loop awaits a chunk
\* the effects of all the events dispatched are in place, in that order: the
\* accumulated text is the concatenation of their texts and the open message
\* shows it.
StrictFifo ==
    /\ IsSubsequence(dispatched, sentEvents)
    /\ pc = "reading" =>
          /\ currentStreamingContent = TextOf(dispatched)
          /\ currentStreamingMessage # 0 =>
                botView[currentStreamingMessage] = formatMessage(TextOf(dispatched))

\* three different records sent, each dispatched in its turn
StrictFifoWitness ==
    /\ pc = "reading"
    /\ sentEvents = << TextEv("text", <<"a">>), TextEv("text_delta", <<"<">>),
                       DoneEv(NoSid) >>
    /\ dispatched = sentEvents
    /\ currentStreamingContent = <<"a", "<">>

\* the smaller of two numbers
Min(a, b) == IF a <= b THEN a ELSE b

\* C21: the chat_history of a request is a bounded window.  It holds
\* min(10, n) entries, n being the length of chatHistory when the request is
\* built, and they are the last entries of chatHistory in their order.
HistoryWindowBounded ==
    [][lastOp' = "send" =>
          LET w == requests'[Len(requests')].chat_history
              n == Len(chatHistory')
          IN  /\ Len(w) = Min(HistoryWindow, n)
              /\ Len(w) <= 10
              /\ \A j \in 1..Len(w) : w[j] = chatHistory'[n - Len(w) + j]]_vars

\* a request built from a history of 13 entries: its window begins at the fourth
HistoryWindowWitness ==
    /\ lastOp = "send"
    /\ Len(chatHistory) = 13
    /\ Len(requests[Len(requests)].chat_history) = 10
    /\ requests[Len(requests)].chat_history[1] = chatHistory[4]
    /\ chatHistory[4] = [role |-> "assistant", content |-> PriorAnswer(2)]

\* the text between the first and the last n characters of c
Inside(c, n) == SubSeq(c, n + 1, Len(c) - n)

\* c is one fenced code block: a fence, a text without grave accent, a fence
IsFencedBlock(c) ==
    /\ Len(c) >= 6
    /\ IsAt(c, 1, Fence)
    /\ IsAt(c, Len(c) - 2, Fence)
    /\ \A k \in 4..(Len(c) - 3) : c[k] # Backtick

\* c is one inline code span
IsCodeSpan(c) ==
    /\ Len(c) >= 3
    /\ c[1] = Backtick
    /\ c[Len(c)] = Backtick
    /\ \A k \in 2..(Len(c) - 1) : c[k] # Backtick

\* C22: code is protected.  The text inside a fenced code block or an inline
\* code span is shown as it is, escaped, inside its code element: no bold,
\* italic or other rule acts on it, and the placeholder that stood for it is
\* replaced by it again.
CodeProtected ==
    currentStreamingMessage # 0 =>
        LET c == currentStreamingContent
            v == botView[currentStreamingMessage]
        IN  /\ IsFencedBlock(c) =>
                  v = <<"<pre>", "<code>">> \o escapeHtml(Inside(c, 3))
                      \o <<"</code>", "</pre>">>
            /\ IsCodeSpan(c) =>
                  v = <<"<code>">> \o escapeHtml(Inside(c, 1)) \o <<"</code>">>

\* the list tags of a rendered text, in their order
ListTags(v) == SelectSeq(v, LAMBDA t : t \in {"<ul>", "</ul>", "<ol>", "</ol>"})

\* every closing tag of tags closes the list opened last and still open, of
\* its kind, and no list stays open; open holds the lists that are open
RECURSIVE ListsClosed(_, _)
ListsClosed(tags, open) ==
    IF tags = <<>> THEN open = <<>>
    ELSE IF Head(tags) \in {"<ul>", "<ol>"}
         THEN ListsClosed(Tail(tags), <<Head(tags)>> \o open)
    ELSE /\ open # <<>>
         /\ Head(open) = (IF Head(tags) = "</ul>" THEN "<ul>" ELSE "<ol>")
         /\ ListsClosed(Tail(tags), Tail(open))

\* C23: list rendering closes what it opens.  In the rendering of every text
\* each list opening tag has exactly one closing tag, of the same kind, and
\* every open level is closed at a line that is no item and at the end.
ListLevelsClosed ==
    currentStreamingMessage # 0 =>
        ListsClosed(ListTags(botView[currentStreamingMessage]), <<>>)

\* C24: a failed upload is independent of the chat state.  It leaves the
\* session id, the history, the tool-result cache, the document attached
\* before and the turn in flight (guard flag, accumulated text, open
\* container and its rendering, stream position) as they were.
UploadErrorIndependent ==
    [][lastOp' \in {"upload_fail", "upload_lost"} =>
          UNCHANGED <<sessionId, chatHistory, sessionState, uploadedFile,
                      resumeUploaded, isTyping, currentStreamingContent,
                      currentStreamingMessage, botView, pc, wire>>]_vars

\* an upload has failed on a page with a document attached, while a turn
\* with accumulated text was in flight
UploadErrorWitness ==
    /\ lastOp = "upload_fail"
    /\ uploadedFile = UploadedFile("cv.pdf", 1)
    /\ isTyping
    /\ pc = "reading"
    /\ currentStreamingContent = <<"a">>
    /\ chatHistory # <<>>

\* the records of a turn that searches the web and then answers
WebSearchScript ==
    << BlockEv("server_tool_use", "web_search"), ResultEv("web_search", "ok"),
       TextEv("text", <<"a">>), DoneEv(NoSid) >>

\* the records dispatched in the turn are the first k of the script
Played(k) == dispatched = SubSeq(WebSearchScript, 1, k)

\* C25: the order of a web search.  On the records content_block_start
\* (server_tool_use, web_search), tool_execution_complete (web_search), text,
\* complete, the web-search indicator is shown, then hidden, and the text
\* is rendered only after that: no indicator is visible while or after the
\* message is rendered.
WebSearchOrder ==
    /\ (Played(1) /\ pc = "reading") =>
           /\ Count(chatMessages, "websearch") = 1
           /\ currentStreamingMessage = 0
    /\ Played(2) =>
           /\ Indicators(chatMessages) + Count(chatMessages, "typing") = 0
           /\ currentStreamingMessage = 0
    /\ (Played(3) \/ Played(4)) =>
           /\ Indicators(chatMessages) + Count(chatMessages, "typing") = 0
           /\ currentStreamingMessage # 0
           /\ botView[currentStreamingMessage] = formatMessage(<<"a">>)

\* the four records have been dispatched and the stream has ended
WebSearchOrderWitness ==
    /\ Played(4)
    /\ lastOp = "done"
    /\ currentStreamingMessage # 0
    /\ Indicators(chatMessages) = 0

\* C26: the message container is created lazily.  While a stream is read, a
\* container of the turn exists only if the accumulated text is not empty
\* after trimming: start records, tool records, job data and white space
\* create none.
LazyMessageCreation ==
    pc = "reading" =>
        /\ (currentStreamingMessage # 0 \/ containers > 0) =>
               TrimNonEmpty(currentStreamingContent)
        /\ (\A i \in 1..Len(dispatched) :
               dispatched[i].type \notin {"text", "text_delta"}
               \/ ~TrimNonEmpty(dispatched[i].content)) =>
               currentStreamingMessage = 0 /\ containers = 0

\* a start record, white space and job data have been dispatched, and the
\* turn has no container
LazyMessageWitness ==
    /\ pc = "reading"
    /\ dispatched = << EvBase("start"), TextEv("text", <<" ">>), JobsEv(1, "personalized") >>
    /\ currentStreamingContent = <<" ">>
    /\ currentStreamingMessage = 0
    /\ Count(chatMessages, "bot") = 0

\* the tools whose execution a server may report
ExecutingTools == {"analyze_resume", "match_jobs_with_resume"}

\* the fields after a tool_execution_start record for tool n, dispatched now
AfterExecutionStart(n) == processUnifiedEvent(Mgr, ToolEv("tool_execution_start", n))

AfterExecutionComplete(n, r) == processUnifiedEvent(Mgr, ResultEv(n, r))

\* C28: tool results are dispatched by name.  A result for analyze_resume is
\* stored in sessionState.resumeAnalysis only when it is present and reports
\* no error; a result for a tool name that is not recognized changes no state
\* and raises no error; in every case no tool-execution indicator is visible
\* afterwards.
ToolResultDispatch ==
    \A r \in {"", "ok", "error"} :
        LET a == AfterExecutionComplete("analyze_resume", r)
            c == AfterExecutionComplete("custom_tool", r)
        IN  /\ a.ss.resumeAnalysis = IF r = "ok" THEN r ELSE sessionState.resumeAnalysis
            /\ [a EXCEPT !.dom = chatMessages, !.ss = sessionState] = Mgr
            /\ [c EXCEPT !.dom = chatMessages] = Mgr
            /\ Count(a.dom, "tool") = 0
            /\ Count(c.dom, "tool") = 0

\* the records dispatched in the turn whose type the client knows
KnownDispatched == SelectSeq(dispatched, LAMBDA e : e.type # "ping")

\* C29: a record of a type that is not recognized is ignored.  Dispatched in
\* any state it changes nothing (text, container, indicators, session id),
\* and while a stream is read the accumulated text, the container with its
\* rendering and the session id are what the records of known types make
\* them: the records after it are processed as if it had not come.
UnknownIgnored ==
    /\ processUnifiedEvent(Mgr, EvBase("ping")) = Mgr
    /\ AfterEvent(Mgr, EvBase("ping")) = Mgr
    /\ pc = "reading" =>
          /\ currentStreamingContent = TextOf(KnownDispatched)
          /\ currentStreamingMessage # 0 <=> TextOf(KnownDispatched) # <<>>
          /\ currentStreamingMessage # 0 =>
                botView[currentStreamingMessage] = formatMessage(TextOf(KnownDispatched))
          /\ sessionId = IF \E i \in 1..Len(KnownDispatched) :
                                 KnownDispatched[i].type = "complete"
                         THEN ServerSid
                         ELSE requests[Len(requests)].session_id
          /\ errorsShown = 0

\* a record of unknown type has come between two texts, and both are rendered
UnknownIgnoredWitness ==
    /\ pc = "reading"
    /\ dispatched = << TextEv("text", <<"a">>), EvBase("ping"), TextEv("text_delta", <<"<">>) >>
    /\ currentStreamingContent = <<"a", "<">>
    /\ currentStreamingMessage # 0
    /\ botView[currentStreamingMessage] = <<"a", "&lt;">>

\* C30: when a turn has ended, by the end of its stream or by an error of
\* the read, no typing, web-search or tool-execution indicator is visible,
\* whatever records the turn has dispatched.
NoIndicatorAfterTurn ==
    lastOp \in {"done", "read_fail"} =>
        Indicators(chatMessages) + Count(chatMessages, "typing") = 0

\* C31: the session id does not go back.  Once clearSession() has generated
\* a new session id, the session id is never again one that the manager
\* generated before it: no record of a turn sent before or during the
\* clear, its complete record in particular, puts an old id back.
SessionIdNeverGoesBack ==
    \A k \in 1..(nextSid - 1) : sessionId # ClientSid(k)

\* the turns sent since the last clearSession() took effect
SentSinceClear ==
    Cardinality({i \in 1..Len(requests) : requests[i].generation = nextSid})

\* C32: the history of a cleared session.  Once clearSession() has reset the
\* history, chatHistory holds entries of the turns sent after the clear only:
\* one user entry for each of them, at most one assistant entry for each of
\* them, and every assistant entry stands after the user entry of its turn.
HistoryOfNewSession ==
    nextSid > 1 =>
        /\ UserEntries(chatHistory) = SentSinceClear
        /\ AssistantEntries(chatHistory) <= SentSinceClear
        /\ \A i \in 1..Len(chatHistory) :
               chatHistory[i].role = "assistant" =>
                   i > 1 /\ chatHistory[i - 1].role = "user"

\* the turns whose stream has ended or whose request has failed
TurnsEnded == IF pc = "idle" THEN Len(requests) ELSE Len(requests) - 1

\* C33: history bookkeeping per turn.  An accepted send appends exactly one
\* user entry to chatHistory, and the request built next carries it; the end
\* of a stream appends at most one assistant entry, the text of the turn, and
\* the turn's user entry was appended before it; no other step appends to
\* chatHistory or changes an entry (a session clear empties it); and chatHistory
\* never holds more assistant entries than turns have ended, nor more user
\* entries than sends were accepted.
HistoryBookkeeping ==
    /\ [](/\ AssistantEntries(chatHistory) <= TurnsEnded
          /\ UserEntries(chatHistory) <= Len(requests))
    /\ [][/\ lastOp' = "send" =>
               /\ Len(chatHistory') = Len(chatHistory) + 1
               /\ SubSeq(chatHistory', 1, Len(chatHistory)) = chatHistory
               /\ chatHistory'[Len(chatHistory')].role = "user"
               /\ chatHistory'[Len(chatHistory')].content # <<>>
               /\ LET w == requests'[Len(requests')].chat_history
                  IN  w # <<>> /\ w[Len(w)] = chatHistory'[Len(chatHistory')]
          /\ lastOp' \in {"done", "read_fail"} =>
               /\ pc = "reading" /\ Len(requests) >= 1
               /\ LET w == requests[Len(requests)].chat_history
                  IN  w[Len(w)].role = "user"
               /\ \/ chatHistory' = chatHistory
                  \/ chatHistory' = Append(chatHistory,
                         [role |-> "assistant", content |-> currentStreamingContent])
          /\ lastOp' = "clear_ok" => chatHistory' = <<>>
          /\ lastOp' \notin {"send", "done", "read_fail", "clear_ok"} =>
               chatHistory' = chatHistory]_vars

\* a turn that dispatched a text, an error record and the result of a tool has
\* ended: the history holds its user entry and its assistant entry
HistoryBookkeepingWitness ==
    /\ lastOp = "done"
    /\ Len(chatHistory) = 2
    /\ chatHistory[1].role = "user"
    /\ chatHistory[2] = [role |-> "assistant", content |-> <<"a">>]
    /\ \E i \in 1..Len(dispatched) : dispatched[i].type = "error"
    /\ \E i \in 1..Len(dispatched) : dispatched[i].type = "tool_execution_complete"

\* C34: an assistant entry is the text of a rendered message.  When the end
\* of a stream appends an assistant entry to chatHistory, the turn has created
\* a message container, the container is in the conversation and it shows the
\* rendering of the text of the entry: a turn without text, or with white
\* space only, appends no entry.
AssistantEntryRendered ==
    [][(lastOp' \in {"done", "read_fail"} /\ Len(chatHistory') > Len(chatHistory)) =>
          /\ containers >= 1
          /\ currentStreamingMessage # 0
          /\ \E i \in 1..Len(chatMessages') :
                 /\ chatMessages'[i].kind = "bot"
                 /\ chatMessages'[i].id = currentStreamingMessage
          /\ currentStreamingMessage \in DOMAIN botView
          /\ botView[currentStreamingMessage] =
                 formatMessage(chatHistory'[Len(chatHistory')].content)]_vars

\* C35: a failed request.  When fetch rejects or the status is not OK, the
\* step shows exactly one error message more, appends nothing to chatHistory,
\* leaves the session id as it was and resets isTyping to false; a send is
\* accepted again.
RequestFailureHandled ==
    [][lastOp' = "fetch_fail" =>
          /\ Count(chatMessages', "error") = Count(chatMessages, "error") + 1
          /\ chatHistory' = chatHistory
          /\ sessionId' = sessionId
          /\ ~isTyping'
          /\ ~SendRejected(<<"hi">>)']_vars

\* the request of a second turn has failed: the history holds the first turn
\* and the user entry of the second, the session id is the one the first
\* turn's complete record supplied
RequestFailureWitness ==
    /\ lastOp = "fetch_fail"
    /\ Len(requests) = 2
    /\ Len(chatHistory) = 3
    /\ chatHistory[2].role = "assistant"
    /\ chatHistory[3].role = "user"
    /\ sessionId = ServerSid
    /\ Count(chatMessages, "error") = 1
    /\ ~isTyping

\* the records the server has added to the wire in this step
NewlySent == SubSeq(sentEvents', Len(sentEvents) + 1, Len(sentEvents'))

\* the characters reader.read() has returned in this step
ChunkRead ==
    LET full == wire \o EncodeAll(NewlySent)
    IN  SubSeq(full, 1, Len(full) - Len(wire'))

\* the records of the lines that are a whole "data: " line of JSON text
RECURSIVE RecordsOf(_)
RecordsOf(lines) ==
    IF lines = <<>> THEN <<>>
    ELSE (IF StartsWithData(Head(lines)) /\ Parses(Head(lines))
          THEN << Head(lines)[2].ev >> ELSE <<>>)
         \o RecordsOf(Tail(lines))

\* an event of d raised an exception when it was handled
SomeThrew(d) ==
    \E i \in 1..Len(d) : d[i] = NullEv \/ (d[i] = MalformedMatches /\ jobsManagerAvailable)

\* An exception raised while an event is handled ends the handling of that
\* event only: every whole line of the chunk is dispatched, in the order of
\* the lines, the lines after the failing one too; no error message is shown
\* for it; and the turn ends with isTyping reset.
ThrowContained ==
    /\ [][lastOp' = "chunk" =>
             /\ NewlyDispatched = RecordsOf(Split(ChunkRead))
             /\ errorsShown' = errorsShown
             /\ pc' = "reading"]_vars
    /\ [][(lastOp' \in {"done", "read_fail"} /\ SomeThrew(dispatched)) => ~isTyping']_vars

\* C36: an exception raised while one decoded event is handled is contained
\* to that event.  The read loop goes on, the later events of the stream are
\* dispatched in their order, and the turn ends with isTyping reset and with
\* no indicator left in the conversation.
ExceptionContained ==
    /\ ThrowContained
    /\ [][(lastOp' \in {"done", "read_fail"} /\ SomeThrew(dispatched)) =>
             Indicators(chatMessages') = 0]_vars

\* a chunk of two records: the first raised an exception, the second, a text,
\* was dispatched after it and is shown
ThrowContainedWitness ==
    /\ lastOp = "chunk"
    /\ dispatched = << MalformedMatches, TextEv("text", <<"a">>) >>
    /\ sentEvents = dispatched
    /\ currentStreamingMessage # 0
    /\ botView[currentStreamingMessage] = <<"a">>

\* C39: updateToolExecutionIndicator(name, 'executing') changes the label of
\* the indicator shown for the tool called name and nothing else: an
\* indicator shown for another tool keeps its label, and no element is added
\* or removed.
RelabelsOwnIndicatorOnly ==
    \A n \in ExecutingTools :
        LET dom == updateToolExecutionIndicator(chatMessages, n, "executing")
        IN  /\ Len(dom) = Len(chatMessages)
            /\ \A i \in 1..Len(chatMessages) :
                  (chatMessages[i].kind = "tool" /\ chatMessages[i].name # n) =>
                      dom[i] = chatMessages[i]

\* the outcomes of a started search
SearchOutcomes ==
    {"search_ok", "search_http_error", "search_network_failure", "search_body_failure"}

\* C38: at most one job search is in flight.  No two calls of
\* handleJobSearch await at the same time, and isLoading is true exactly
\* while one does; a call made while isLoading is true issues no request and
\* changes nothing; a call with an empty job title issues no request and
\* leaves isLoading false; every outcome of a started search resets isLoading
\* to false, and a search is accepted again.
SingleSearchInFlight ==
    /\ [](/\ Len(searches) <= 1
          /\ isLoading <=> Len(searches) = 1)
    /\ [][lastOp' = "search_rejected_busy" =>
             isLoading /\ UNCHANGED jobsVars]_vars
    /\ [][lastOp' = "search_rejected_empty" =>
             /\ Trim(jobTitleInput) = <<>>
             /\ searchLog' = searchLog
             /\ searches' = searches
             /\ ~isLoading']_vars
    /\ [][lastOp' = "search_start" =>
             /\ ~isLoading /\ isLoading'
             /\ searchLog' = Append(searchLog, Trim(jobTitleInput))]_vars
    /\ [][lastOp' \in SearchOutcomes =>
             /\ isLoading
             /\ ~isLoading'
             /\ ~SearchInProgress'
             /\ searches' = <<>>]_vars

\* a second search has been started after the first failed, and a call made
\* while it is in flight has been rejected
SingleSearchWitness ==
    /\ lastOp = "search_rejected_busy"
    /\ Len(searchLog) = 2
    /\ Len(searches) = 1
    /\ isLoading
    /\ jobsPage.content = "error"

\* the handlers of the legacy manager that are reading a stream
LegacyReaders == {i \in 1..Len(legacyHandlers) : legacyHandlers[i].stage = "read"}

\* C37: the legacy manager consumes one streaming response at a time.  The
\* stream of the resume analysis started after an upload and the stream of a
\* message are never read at the same time, and a streaming message is
\* created only while no other streaming message is open.
LegacySingleStream ==
    /\ [](Cardinality(LegacyReaders) <= 1)
    /\ [][lastOp' = "legacy_stream_open" => LegacyReaders = {}]_vars

====
